---- MODULE Spec2Model ----
(***************************************************************************)
(* A model of the JSON node tree of notJoon/json: the Node heap with its   *)
(* parent (prev) and child (next) links, the constructors, the mutators    *)
(* (Set*, SetNode, AppendArray, AppendObject, Delete, DeleteIndex), Clone, *)
(* the decoder (Unmarshal) and the encoder (Marshal).                      *)
(*                                                                         *)
(* A byte string is a sequence of one-character strings.  A node pointer   *)
(* is a natural number, 0 is the nil pointer.  The heap maps the allocated *)
(* pointers 1..used to Node structs.                                       *)
(***************************************************************************)
EXTENDS Integers, Sequences, FiniteSets, TLC

\* ------------------------------------------------------------------ bounds
\* the number of Node structs the heap may hold
MaxNodes == 4
\* the number of public calls in one run
MaxSteps == 3

\* ------------------------------------------------------------ basic values
NIL == 0
NoIndex == 0 - 1
NoKey == <<>>
NoValue == <<>>
NoData == <<>>
EmptyMap == [k \in {} |-> 0]

Null == "Null"
Number == "Number"
String == "String"
Boolean == "Boolean"
Array == "Array"
Object == "Object"

Min(a, b) == IF a < b THEN a ELSE b
Max0(a) == IF a < 0 THEN 0 ELSE a

\* a set of byte strings as a sequence, in a fixed order
RECURSIVE SetToSeq(_)
SetToSeq(S) ==
  IF S = {} THEN <<>>
  ELSE LET x == CHOOSE y \in S : TRUE IN <<x>> \o SetToSeq(S \ {x})

\* m with key k bound to v
MapPut(m, k, v) == [x \in (DOMAIN m) \cup {k} |-> IF x = k THEN v ELSE m[x]]
\* m without key k (Go's delete: no effect when k is absent)
MapDel(m, k) == [x \in (DOMAIN m) \ {k} |-> m[x]]
MapLen(m) == Cardinality(DOMAIN m)

\* strconv.Itoa for the non-negative indices of the model
DigitChars == <<"0", "1", "2", "3", "4", "5", "6", "7", "8", "9">>
RECURSIVE Itoa(_)
Itoa(i) ==
  IF i < 0 THEN <<"-">> \o Itoa(0 - i)
  ELSE IF i < 10 THEN <<DigitChars[i + 1]>>
  ELSE Itoa(i \div 10) \o <<DigitChars[(i % 10) + 1]>>

\* ------------------------------------------------------------ the Node type
\* the struct Node: prev, next, key, data, value, nodeType, index, borders,
\* modified.  key is NoKey (a nil *string) or <<k>>; index is NoIndex (a nil
\* *int) or the index; data is NoData (a nil slice) or <<d>>, d the slice given
\* to Unmarshal: its bytes, and the bytes that its backing array holds after
\* them (the capacity of the slice is the length of both).
NodeRec(prev, next, key, data, value, nodeType, index, borders, modified) ==
  [prev |-> prev, next |-> next, key |-> key, data |-> data, value |-> value,
   nodeType |-> nodeType, index |-> index, borders |-> borders,
   modified |-> modified]

\* the heap h with one more struct at the pointer id
Alloc(h, id, rec) == [x \in (DOMAIN h) \cup {id} |-> IF x = id THEN rec ELSE h[x]]

IsArray(h, n) == h[n].nodeType = Array
IsObject(h, n) == h[n].nodeType = Object
isContainer(h, n) == h[n].nodeType = Array \/ h[n].nodeType = Object
ready(h, n) == h[n].borders[2] # 0
Size(h, n) == MapLen(h[n].next)

\* ------------------------------------------------- node helpers (node.go)
\* the outcome of a call: "ok", "err" (an error is returned), "panic" (a nil
\* pointer is dereferenced or the stack overflows) or "hang" (a loop over a
\* cyclic prev chain never ends)
Res(h, res) == [h |-> h, res |-> res]

\* mark: set modified on n and its ancestors, up to the first modified one
RECURSIVE mark(_, _)
mark(h, n) ==
  IF n = NIL \/ h[n].modified THEN h
  ELSE mark([h EXCEPT ![n].modified = TRUE], h[n].prev)

\* clear: drop the source and the children of n
clear(h, n) ==
  LET kids == {h[n].next[k] : k \in DOMAIN h[n].next}
  IN [x \in DOMAIN h |->
        IF x = n
        THEN [h[x] EXCEPT !.data = NoData,
                          !.borders = <<h[x].borders[1], 0>>,
                          !.next = EmptyMap,
                          !.prev = IF x \in kids THEN NIL ELSE h[x].prev]
        ELSE IF x \in kids THEN [h[x] EXCEPT !.prev = NIL]
        ELSE h[x]]

\* the loop of isParentNode: curr walks the prev chain of nd looking for n
RECURSIVE walkPrev(_, _, _, _)
walkPrev(h, n, curr, fuel) ==
  IF curr = NIL THEN "false"
  ELSE IF curr = n THEN "true"
  ELSE IF fuel = 0 THEN "hang"
  ELSE walkPrev(h, n, h[curr].prev, fuel - 1)

isParentNode(h, n, nd) ==
  IF n = NIL THEN "false"
  ELSE walkPrev(h, n, h[nd].prev, Cardinality(DOMAIN h))

isSameOrParentNode(h, n, nd) ==
  IF n = nd THEN "true" ELSE isParentNode(h, n, nd)

\* dropIndex: the loop that rebases the indices after idx
RECURSIVE dropIndexFrom(_, _, _)
dropIndexFrom(h, n, i) ==
  IF i > MapLen(h[n].next) THEN h
  ELSE LET prv == i - 1
           has == Itoa(i) \in DOMAIN h[n].next
           curr == h[n].next[Itoa(i)]
           h1 == IF has
                 THEN [[h EXCEPT ![curr].index = prv]
                          EXCEPT ![n].next = MapPut(@, Itoa(prv), curr)]
                 ELSE h
           h2 == [h1 EXCEPT ![n].next = MapDel(@, Itoa(i))]
       IN dropIndexFrom(h2, n, i + 1)

dropIndex(h, n, idx) == dropIndexFrom(h, n, idx + 1)

\* a remove that leaves out n.mark()
removeUnmarked(h, n, v) ==
  IF ~isContainer(h, n) THEN Res(h, "err")
  ELSE IF h[v].prev # n THEN Res(h, "err")
  ELSE LET h1 == h
       IN IF IsArray(h1, n)
          THEN IF h1[v].index = NoIndex THEN Res(h1, "panic")
               ELSE LET h2 == [h1 EXCEPT ![n].next = MapDel(@, Itoa(h1[v].index))]
                        h3 == dropIndex(h2, n, h1[v].index)
                    IN Res([h3 EXCEPT ![v].prev = NIL], "ok")
          ELSE IF h1[v].key = NoKey THEN Res(h1, "panic")
               ELSE LET h2 == [h1 EXCEPT ![n].next = MapDel(@, h1[v].key[1])]
                    IN Res([h2 EXCEPT ![v].prev = NIL], "ok")

\* remove: take v out of the container n
remove(h, n, v) ==
  IF ~isContainer(h, n) THEN Res(h, "err")
  ELSE IF h[v].prev # n THEN Res(h, "err")
  ELSE LET h1 == mark(h, n)
       IN IF IsArray(h1, n)
          THEN IF h1[v].index = NoIndex THEN Res(h1, "panic")
               ELSE LET h2 == [h1 EXCEPT ![n].next = MapDel(@, Itoa(h1[v].index))]
                        h3 == dropIndex(h2, n, h1[v].index)
                    IN Res([h3 EXCEPT ![v].prev = NIL], "ok")
          ELSE IF h1[v].key = NoKey THEN Res(h1, "panic")
               ELSE LET h2 == [h1 EXCEPT ![n].next = MapDel(@, h1[v].key[1])]
                    IN Res([h2 EXCEPT ![v].prev = NIL], "ok")

\* append, its end for a key: r is the outcome of removing the node that n
\* held under the key
appendKeyed(r, n, key, val) ==
  IF r.res # "ok" THEN r
  ELSE Res([r.h EXCEPT ![n].next = MapPut(@, key[1], val)], "ok")

\* append, once val.prev and val.key are set: val goes to the end of the
\* array, or replaces the member of the object
appendLinked(h, n, key, val) ==
  IF key = NoKey
  THEN LET size == MapLen(h[n].next)
       IN Res([[h EXCEPT ![val].index = size]
                  EXCEPT ![n].next = MapPut(@, Itoa(size), val)],
              "ok")
  ELSE appendKeyed(IF key[1] \in DOMAIN h[n].next
                   THEN remove(h, n, h[n].next[key[1]])
                   ELSE Res(h, "ok"),
                   n, key, val)

\* append, after the cycle check: r is the outcome of removing val from its
\* former parent
appendDetached(r, n, key, val) ==
  IF r.res # "ok" THEN r
  ELSE appendLinked([r.h EXCEPT ![val].prev = n, ![val].key = key], n, key, val)

\* append: put val into the container n, under key or at the end (key = NoKey)
append(h, n, key, val) ==
  LET same == isSameOrParentNode(h, n, val)
  IN IF same = "hang" THEN Res(h, "hang")
     ELSE IF same = "true" THEN Res(h, "err")
     ELSE appendDetached(IF h[val].prev # NIL THEN remove(h, h[val].prev, val)
                         ELSE Res(h, "ok"),
                         n, key, val)

\* the loop of AppendArray and of update(Array, ..): append each node in turn
RECURSIVE appendEach(_, _, _)
appendEachRest(r, n, nodes) ==
  IF r.res # "ok" THEN r ELSE appendEach(r.h, n, nodes)

appendEach(h, n, nodes) ==
  IF nodes = <<>> THEN Res(h, "ok")
  ELSE appendEachRest(append(h, n, NoKey, Head(nodes)), n, Tail(nodes))

\* the loop of update(Object, ..): pairs is the map in its iteration order
RECURSIVE appendPairs(_, _, _)
appendPairsRest(r, n, pairs) ==
  IF r.res # "ok" THEN r ELSE appendPairs(r.h, n, pairs)

appendPairs(h, n, pairs) ==
  IF pairs = <<>> THEN Res(h, "ok")
  ELSE appendPairsRest(append(h, n, <<Head(pairs)[1]>>, Head(pairs)[2]), n, Tail(pairs))

\* update: vt is the new type; val is NoValue, a scalar value, a sequence of
\* nodes (Array) or a sequence of <<key, node>> pairs (Object)
update(h, n, vt, val) ==
  LET h1 == clear(mark(h, n), n)
      h2 == [h1 EXCEPT ![n].nodeType = vt, ![n].value = NoValue]
  IN IF vt = Array THEN appendEach(h2, n, val)
     ELSE IF vt = Object THEN appendPairs(h2, n, val)
     ELSE IF vt = Null THEN Res(h2, "ok")
     ELSE Res([h2 EXCEPT ![n].value = val], "ok")

\* the number of structs clone() allocates for the sub-tree of n, or -1 when
\* the next maps below n contain a cycle (clone then recurses for ever)
RECURSIVE unfoldSize(_, _, _)
RECURSIVE unfoldSum(_, _, _)
unfoldSize(h, n, fuel) ==
  IF fuel = 0 THEN 0 - 1
  ELSE LET s == unfoldSum(h, SetToSeq({<<k, h[n].next[k]>> : k \in DOMAIN h[n].next}),
                          fuel - 1)
       IN IF s < 0 THEN 0 - 1 ELSE 1 + s
unfoldSum(h, kids, fuel) ==
  IF kids = <<>> THEN 0
  ELSE LET a == unfoldSize(h, Head(kids)[2], fuel)
           b == unfoldSum(h, Tail(kids), fuel)
       IN IF a < 0 \/ b < 0 THEN 0 - 1 ELSE a + b

CloneSize(h, n) == unfoldSize(h, n, Cardinality(DOMAIN h))

\* clone: copy the struct of src to the fresh pointer used + 1 and the
\* children, recursively, to the pointers after it; every field is copied as
\* it is, prev included.  h0 is the heap read, hw the heap written.
RECURSIVE clone(_, _, _, _)
RECURSIVE cloneChildren(_, _, _, _)
clone(h0, hw, src, used) ==
  LET id == used + 1
      r == cloneChildren(h0, hw, SetToSeq(DOMAIN h0[src].next), [src |-> src, used |-> id])
  IN [h |-> Alloc(r.h, id, [h0[src] EXCEPT !.next = r.m]), id |-> id, used |-> r.used]
cloneChildren(h0, hw, keys, st) ==
  IF keys = <<>> THEN [h |-> hw, m |-> EmptyMap, used |-> st.used]
  ELSE LET c == clone(h0, hw, h0[st.src].next[Head(keys)], st.used)
           rest == cloneChildren(h0, c.h, Tail(keys), [st EXCEPT !.used = c.used])
       IN [h |-> rest.h, m |-> MapPut(rest.m, Head(keys), c.id), used |-> rest.used]

\* setRef
setRef(h, n, prev, key, idx) ==
  [h EXCEPT ![n].prev = prev, ![n].key = key, ![n].index = idx]

\* a Clone that leaves out the setRef(nil, nil, nil)
CloneKeepsRef(h, n, used) ==
  LET c == clone(h, h, n, used)
  IN [h |-> c.h, id |-> c.id, used |-> c.used]

\* Clone: clone() followed by setRef(nil, nil, nil) on the copy
Clone(h, n, used) ==
  LET c == clone(h, h, n, used)
  IN [h |-> setRef(c.h, c.id, NIL, NoKey, NoIndex), id |-> c.id, used |-> c.used]

\* SetNode: n becomes a copy of the struct of val.Clone(), keeping its own
\* prev, key and index; the copy of the root struct itself is dropped, so
\* the pointers after used hold only the copies of the descendants of val
SetNode(h, n, val, used) ==
  LET same == isSameOrParentNode(h, n, val)
  IN IF same = "hang" THEN [h |-> h, res |-> "hang", used |-> used]
     ELSE IF same = "true" THEN [h |-> h, res |-> "err", used |-> used]
     ELSE IF CloneSize(h, val) < 0 THEN [h |-> h, res |-> "panic", used |-> used]
     ELSE LET r == cloneChildren(h, h, SetToSeq(DOMAIN h[val].next),
                                 [src |-> val, used |-> used])
              node == [h[val] EXCEPT !.next = r.m, !.prev = h[n].prev,
                                     !.key = h[n].key, !.index = h[n].index]
              h1 == [r.h EXCEPT ![n] = node]
          IN [h |-> mark(h1, h1[n].prev), res |-> "ok", used |-> r.used]

\* the constructors: the struct is allocated at the pointer id
NullNode(h, id, key) ==
  Alloc(h, id, NodeRec(NIL, EmptyMap, <<key>>, NoData, NoValue, Null, NoIndex, <<0, 0>>, TRUE))
NumberNode(h, id, key, value) ==
  Alloc(h, id, NodeRec(NIL, EmptyMap, <<key>>, NoData, <<"num", value>>, Number, NoIndex,
                       <<0, 0>>, TRUE))
StringNode(h, id, key, value) ==
  Alloc(h, id, NodeRec(NIL, EmptyMap, <<key>>, NoData, <<"str", value>>, String, NoIndex,
                       <<0, 0>>, TRUE))
BoolNode(h, id, key, value) ==
  Alloc(h, id, NodeRec(NIL, EmptyMap, <<key>>, NoData, <<"bool", value>>, Boolean, NoIndex,
                       <<0, 0>>, TRUE))

\* ArrayNode: value is <<>> (a nil slice) or <<nodes>>; the loop sets prev
\* and index of every element and leaves the element's former parent alone
RECURSIVE arrayNodeLoop(_, _, _, _)
arrayNodeLoop(h, curr, value, i) ==
  IF i >= Len(value) THEN h
  ELSE LET v == value[i + 1]
           h1 == [h EXCEPT ![curr].next = MapPut(@, Itoa(i), v)]
           h2 == [h1 EXCEPT ![v].prev = curr, ![v].index = i]
       IN arrayNodeLoop(h2, curr, value, i + 1)

ArrayNode(h, id, key, value) ==
  LET h1 == Alloc(h, id, NodeRec(NIL, EmptyMap, <<key>>, NoData,
                                 IF value = <<>> THEN NoValue ELSE <<"arr", value[1]>>,
                                 Array, NoIndex, <<0, 0>>, TRUE))
  IN IF value = <<>> THEN h1 ELSE arrayNodeLoop(h1, id, value[1], 0)

\* ObjectNode: value is <<>> (a nil map) or <<pairs>>, pairs being the map
\* as a sequence of <<key, node>> in its iteration order; next is the map
\* itself, and so is the cached value (<<"obj", id>>: the map that next of
\* id was made from)
RECURSIVE objectNodeLoop(_, _, _)
objectNodeLoop(h, curr, pairs) ==
  IF pairs = <<>> THEN h
  ELSE LET val == Head(pairs)[2]
           h1 == [h EXCEPT ![val].prev = curr, ![val].key = <<Head(pairs)[1]>>]
       IN objectNodeLoop(h1, curr, Tail(pairs))

ObjectNode(h, id, key, value) ==
  LET next == IF value = <<>> THEN EmptyMap
              ELSE [k \in {value[1][i][1] : i \in 1..Len(value[1])} |->
                      LET i == CHOOSE j \in 1..Len(value[1]) : value[1][j][1] = k
                      IN value[1][i][2]]
      h1 == Alloc(h, id, NodeRec(NIL, next, <<key>>, NoData,
                                 IF value = <<>> THEN NoValue ELSE <<"obj", id>>,
                                 Object, NoIndex, <<0, 0>>, TRUE))
  IN IF value = <<>> THEN h1 ELSE objectNodeLoop(h1, id, value[1])

\* GetIndex without the indices counted from the end
GetIndexFromStart(h, n, idx) ==
  IF h[n].nodeType # Array THEN NIL
  ELSE IF Itoa(idx) \in DOMAIN h[n].next THEN h[n].next[Itoa(idx)] ELSE NIL

\* GetIndex: the element of the array n at idx, negative idx counted from the
\* end; id is NIL when an error is returned
GetIndex(h, n, idx) ==
  IF h[n].nodeType # Array THEN NIL
  ELSE IF idx > Size(h, n) THEN NIL
  ELSE LET i == IF idx < 0 THEN idx + MapLen(h[n].next) ELSE idx
       IN IF Itoa(i) \in DOMAIN h[n].next THEN h[n].next[Itoa(i)] ELSE NIL

\* DeleteIndex
DeleteIndex(h, n, idx) ==
  LET node == GetIndex(h, n, idx)
  IN IF node = NIL THEN Res(h, "err") ELSE remove(h, n, node)

\* Delete
Delete(h, n) ==
  IF h[n].prev = NIL THEN Res(h, "ok") ELSE remove(h, h[n].prev, n)

\* the end of AppendArray and AppendObject: n.mark(), unless an append
\* returned an error
appended(r, n) == IF r.res # "ok" THEN r ELSE Res(mark(r.h, n), "ok")

\* AppendArray
AppendArray(h, n, value) ==
  IF ~IsArray(h, n) THEN Res(h, "err") ELSE appended(appendEach(h, n, value), n)

\* AppendObject
AppendObject(h, n, key, value) ==
  IF ~IsObject(h, n) THEN Res(h, "err") ELSE appended(append(h, n, <<key>>, value), n)

\* ------------------------------------------- the byte buffer (buffer.go)
\* the character classes of the bytes the documents of the model are made of
AsciiClasses(c) ==
  CASE c = " " -> "C_SPACE"
    [] c \in {"\t", "\n", "\r"} -> "C_WHITE"
    [] c = "{" -> "C_LCURB"
    [] c = "}" -> "C_RCURB"
    [] c = "[" -> "C_LSQRB"
    [] c = "]" -> "C_RSQRB"
    [] c = ":" -> "C_COLON"
    [] c = "," -> "C_COMMA"
    [] c = "\"" -> "C_QUOTE"
    [] c = "\\" -> "C_BACKS"
    [] c = "/" -> "C_SLASH"
    [] c = "+" -> "C_PLUS"
    [] c = "-" -> "C_MINUS"
    [] c = "." -> "C_POINT"
    [] c = "0" -> "C_ZERO"
    [] c \in {"1", "2", "3", "4", "5", "6", "7", "8", "9"} -> "C_DIGIT"
    [] c = "a" -> "C_LOW_A"
    [] c = "b" -> "C_LOW_B"
    [] c = "c" -> "C_LOW_C"
    [] c = "d" -> "C_LOW_D"
    [] c = "e" -> "C_LOW_E"
    [] c = "f" -> "C_LOW_F"
    [] c = "l" -> "C_LOW_L"
    [] c = "n" -> "C_LOW_N"
    [] c = "r" -> "C_LOW_R"
    [] c = "s" -> "C_LOW_S"
    [] c = "t" -> "C_LOW_T"
    [] c = "u" -> "C_LOW_U"
    [] c \in {"A", "B", "C", "D", "F"} -> "C_ABCDF"
    [] c = "E" -> "C_E"
    [] OTHER -> "C_ETC"

\* the actions of the transition table (the states below __) and its number
\* states (MI..E3)
ActionStates == {"cl", "cm", "qt", "bo", "co", "bc", "cc", "ec"}
NumberStates == {"MI", "ZE", "IN", "FR", "E1", "E2", "E3"}
HexClasses == {"C_ZERO", "C_DIGIT", "C_LOW_A", "C_LOW_B", "C_LOW_C", "C_LOW_D",
               "C_LOW_E", "C_LOW_F", "C_ABCDF", "C_E"}

\* what starts a value, after the state from
valueStart(from, class) ==
  CASE class \in {"C_SPACE", "C_WHITE"} -> from
    [] class = "C_LCURB" -> "co"
    [] class = "C_LSQRB" -> "bo"
    [] class = "C_QUOTE" -> "ST"
    [] class = "C_MINUS" -> "MI"
    [] class = "C_ZERO" -> "ZE"
    [] class = "C_DIGIT" -> "IN"
    [] class = "C_LOW_F" -> "F1"
    [] class = "C_LOW_N" -> "N1"
    [] class = "C_LOW_T" -> "T1"
    [] OTHER -> "__"

\* what ends a value
valueEnd(class) ==
  CASE class \in {"C_SPACE", "C_WHITE"} -> "OK"
    [] class = "C_RCURB" -> "cc"
    [] class = "C_RSQRB" -> "bc"
    [] class = "C_COMMA" -> "cm"
    [] OTHER -> "__"

\* the transition table: the state or action after the state last on a byte
\* of the class class, "__" when there is none
StateTransitionTable(last, class) ==
  CASE last = "GO" -> valueStart("GO", class)
    [] last = "OK" -> valueEnd(class)
    [] last = "OB" -> (CASE class \in {"C_SPACE", "C_WHITE"} -> "OB"
                         [] class = "C_RCURB" -> "ec"
                         [] class = "C_QUOTE" -> "ST"
                         [] OTHER -> "__")
    [] last = "KE" -> (CASE class \in {"C_SPACE", "C_WHITE"} -> "KE"
                         [] class = "C_QUOTE" -> "ST"
                         [] OTHER -> "__")
    [] last = "CO" -> (CASE class \in {"C_SPACE", "C_WHITE"} -> "CO"
                         [] class = "C_COLON" -> "cl"
                         [] OTHER -> "__")
    [] last = "VA" -> valueStart("VA", class)
    [] last = "AR" -> IF class = "C_RSQRB" THEN "bc" ELSE valueStart("AR", class)
    [] last = "ST" -> (CASE class = "C_WHITE" -> "__"
                         [] class = "C_QUOTE" -> "qt"
                         [] class = "C_BACKS" -> "ES"
                         [] OTHER -> "ST")
    [] last = "ES" -> (CASE class \in {"C_QUOTE", "C_BACKS", "C_SLASH", "C_LOW_B",
                                       "C_LOW_F", "C_LOW_N", "C_LOW_R", "C_LOW_T"} -> "ST"
                         [] class = "C_LOW_U" -> "U1"
                         [] OTHER -> "__")
    [] last = "U1" -> IF class \in HexClasses THEN "U2" ELSE "__"
    [] last = "U2" -> IF class \in HexClasses THEN "U3" ELSE "__"
    [] last = "U3" -> IF class \in HexClasses THEN "U4" ELSE "__"
    [] last = "U4" -> IF class \in HexClasses THEN "ST" ELSE "__"
    [] last = "MI" -> (CASE class = "C_ZERO" -> "ZE"
                         [] class = "C_DIGIT" -> "IN"
                         [] OTHER -> "__")
    [] last = "ZE" -> (CASE class = "C_POINT" -> "FR"
                         [] class \in {"C_LOW_E", "C_E"} -> "E1"
                         [] OTHER -> valueEnd(class))
    [] last = "IN" -> (CASE class = "C_POINT" -> "FR"
                         [] class \in {"C_ZERO", "C_DIGIT"} -> "IN"
                         [] class \in {"C_LOW_E", "C_E"} -> "E1"
                         [] OTHER -> valueEnd(class))
    [] last = "FR" -> (CASE class \in {"C_ZERO", "C_DIGIT"} -> "FR"
                         [] class \in {"C_LOW_E", "C_E"} -> "E1"
                         [] OTHER -> valueEnd(class))
    [] last = "E1" -> (CASE class \in {"C_PLUS", "C_MINUS"} -> "E2"
                         [] class \in {"C_ZERO", "C_DIGIT"} -> "E3"
                         [] OTHER -> "__")
    [] last = "E2" -> IF class \in {"C_ZERO", "C_DIGIT"} THEN "E3" ELSE "__"
    [] last = "E3" -> IF class \in {"C_ZERO", "C_DIGIT"} THEN "E3" ELSE valueEnd(class)
    [] last = "T1" -> IF class = "C_LOW_R" THEN "T2" ELSE "__"
    [] last = "T2" -> IF class = "C_LOW_U" THEN "T3" ELSE "__"
    [] last = "T3" -> IF class = "C_LOW_E" THEN "OK" ELSE "__"
    [] last = "F1" -> IF class = "C_LOW_A" THEN "F2" ELSE "__"
    [] last = "F2" -> IF class = "C_LOW_L" THEN "F3" ELSE "__"
    [] last = "F3" -> IF class = "C_LOW_S" THEN "F4" ELSE "__"
    [] last = "F4" -> IF class = "C_LOW_E" THEN "OK" ELSE "__"
    [] last = "N1" -> IF class = "C_LOW_U" THEN "N2" ELSE "__"
    [] last = "N2" -> IF class = "C_LOW_L" THEN "N3" ELSE "__"
    [] last = "N3" -> IF class = "C_LOW_L" THEN "OK" ELSE "__"
    [] OTHER -> "__"

\* newBuffer
newBuffer(data) ==
  [data |-> data, length |-> Len(data), index |-> 0, last |-> "GO", state |-> "GO",
   class |-> "__"]

\* the byte at the Go offset i
At(b, i) == b.data[i + 1]

IsBlank(c) == c \in {" ", "\r", "\n", "\t"}

\* first: skip the white space; err at the end of the data
RECURSIVE first(_)
first(b) ==
  IF b.index >= b.length THEN [b |-> b, err |-> TRUE]
  ELSE IF ~IsBlank(At(b, b.index)) THEN [b |-> b, err |-> FALSE]
  ELSE first([b EXCEPT !.index = @ + 1])

\* step (next): move to the next byte; err when there is none
step(b) ==
  LET b1 == [b EXCEPT !.index = @ + 1]
  IN [b |-> b1, err |-> b1.index >= b1.length]

\* getClasses, for the double quote border
getClasses(b) == AsciiClasses(At(b, b.index))

\* getState
getState(b) ==
  LET class == getClasses(b)
  IN IF class = "__"
     THEN [b EXCEPT !.last = b.state, !.class = class]
     ELSE [b EXCEPT !.last = b.state, !.class = class,
                    !.state = StateTransitionTable(b.state, class)]

\* string(doubleQuote, false): move over a string literal; the loop ends on
\* the action of the closing quote, or when the data ends
RECURSIVE string(_)
string(b) ==
  IF b.index >= b.length THEN [b |-> b, err |-> FALSE]
  ELSE LET class == getClasses(b)
           state == StateTransitionTable(b.last, class)
           b1 == [b EXCEPT !.class = class]
       IN IF class = "__" THEN [b |-> b1, err |-> TRUE]
          ELSE IF state = "__" THEN [b |-> [b1 EXCEPT !.state = state], err |-> TRUE]
          ELSE IF state \in ActionStates
               THEN [b |-> [b1 EXCEPT !.state = state], err |-> FALSE]
          ELSE string([b1 EXCEPT !.state = state, !.last = state, !.index = @ + 1])

\* numeric that returns at the byte it starts on
numericAtStart(b) == [b |-> b, err |-> FALSE]

\* numeric(false): move over a number
RECURSIVE numeric(_)
numeric(b) ==
  IF b.index >= b.length
  THEN [b |-> b, err |-> b.last \notin {"ZE", "IN", "FR", "E3"}]
  ELSE LET class == getClasses(b)
           state == StateTransitionTable(b.last, class)
           b1 == [b EXCEPT !.class = class]
       IN IF class = "__" THEN [b |-> b1, err |-> TRUE]
          ELSE IF state = "__" THEN [b |-> [b1 EXCEPT !.state = state], err |-> TRUE]
          ELSE IF state \in ActionStates \/ state \notin NumberStates
               THEN [b |-> [b1 EXCEPT !.state = state], err |-> FALSE]
          ELSE numeric([b1 EXCEPT !.state = state, !.last = state, !.index = @ + 1])

\* word: match the literal bs; index is the number of its bytes matched
RECURSIVE wordLoop(_, _, _)
wordLoop(b, bs, index) ==
  IF b.index >= b.length THEN [b |-> b, err |-> index # Len(bs)]
  ELSE IF At(b, b.index) # bs[index + 1] THEN [b |-> b, err |-> TRUE]
  ELSE IF index + 1 >= Len(bs) THEN [b |-> b, err |-> FALSE]
  ELSE wordLoop([b EXCEPT !.index = @ + 1], bs, index + 1)

word(b, bs) == wordLoop(b, bs, 0)

trueLiteral == <<"t", "r", "u", "e">>
falseLiteral == <<"f", "a", "l", "s", "e">>
nullLiteral == <<"n", "u", "l", "l">>

\* ------------------------------------------------ strings and numbers
\* a byte slice: its bytes, and the bytes that its backing array holds after
\* them
Doc(bytes, spare) == [bytes |-> bytes, spare |-> spare]

\* the bytes data[start:stop] of a slice whose backing array holds the bytes
\* spare after its length; <<"panic">> when stop is beyond the capacity
Slice(data, spare, start, stop) ==
  IF stop > Len(data) + Len(spare) \/ start > stop THEN [res |-> "panic", out |-> <<>>]
  ELSE [res |-> "ok", out |-> SubSeq(data \o spare, start + 1, stop)]

\* the byte 0x08
BackSpace == "BS"

\* the Unicode escapes (\uXXXX)
supplementalPlanesOffset == 65536
highSurrogateOffset == 55296
lowSurrogateOffset == 56320
surrogateEnd == 57343
basicMultilingualPlaneOffset == 65535
badHex == 0 - 1

HexChars == <<"0", "1", "2", "3", "4", "5", "6", "7", "8", "9", "A", "B", "C", "D", "E", "F">>
LowerHexChars == <<"a", "b", "c", "d", "e", "f">>

\* h2i: the value of a hexadecimal digit, badHex for another byte
h2i(c) ==
  IF \E i \in 1..16 : HexChars[i] = c THEN (CHOOSE i \in 1..16 : HexChars[i] = c) - 1
  ELSE IF \E i \in 1..6 : LowerHexChars[i] = c
  THEN (CHOOSE i \in 1..6 : LowerHexChars[i] = c) + 9
  ELSE badHex

isSurrogatePair(r) == highSurrogateOffset <= r /\ r <= surrogateEnd

combineSurrogates(high, low) ==
  (high - highSurrogateOffset) * 1024 + (low - lowSurrogateOffset) + supplementalPlanesOffset

\* decodeSingleUnicodeEscape: the bytes b[2..5] as four hexadecimal digits
decodeSingleUnicodeEscape(b) ==
  IF Len(b) < 6 THEN [r |-> 0, ok |-> FALSE]
  ELSE IF \E i \in 3..6 : h2i(b[i]) = badHex THEN [r |-> 0, ok |-> FALSE]
  ELSE [r |-> h2i(b[3]) * 4096 + h2i(b[4]) * 256 + h2i(b[5]) * 16 + h2i(b[6]), ok |-> TRUE]

\* decodeUnicodeEscape: the rune and the number of bytes it was read from,
\* -1 for an error
decodeSecondEscape(r, r2) ==
  IF ~r2.ok THEN [r |-> 0, size |-> 0 - 1]
  ELSE IF r2.r < lowSurrogateOffset THEN [r |-> 0, size |-> 0 - 1]
  ELSE [r |-> combineSurrogates(r, r2.r), size |-> 12]

decodeFirstEscape(b, r1) ==
  IF ~r1.ok THEN [r |-> 0, size |-> 0 - 1]
  ELSE IF r1.r <= basicMultilingualPlaneOffset /\ ~isSurrogatePair(r1.r)
  THEN [r |-> r1.r, size |-> 6]
  ELSE decodeSecondEscape(r1.r, decodeSingleUnicodeEscape(SubSeq(b, 7, Len(b))))

decodeUnicodeEscape(b) == decodeFirstEscape(b, decodeSingleUnicodeEscape(b))

\* the hexadecimal digits of n
RECURSIVE Hex(_)
Hex(n) == IF n < 16 THEN HexChars[n + 1] ELSE Hex(n \div 16) \o HexChars[(n % 16) + 1]

\* utf8.EncodeRune: the bytes written for the rune r, as one element of the
\* output ("U+" and the digits of the rune; U+FFFD for a surrogate and for
\* a rune beyond U+10FFFF); a is the rune below 0x80 of the model
EncodeRune(r) ==
  IF r = 97 THEN "a"
  ELSE IF r < 0 \/ r > 1114111 \/ isSurrogatePair(r) THEN "U+FFFD"
  ELSE "U+" \o Hex(r)

\* the loop of unquoteBytes over the interior s of a string literal, from r;
\* the documents of the model hold no byte over 0x7f
RECURSIVE unquoteFrom(_, _, _)
\* the escape \u at r: the rune is written and r moves by 5 from the u
unquoteEscape(s, border, r, d) ==
  IF d.size < 0 THEN [ok |-> FALSE, out |-> <<>>]
  ELSE IF ~unquoteFrom(s, border, r + 6).ok THEN [ok |-> FALSE, out |-> <<>>]
  ELSE [ok |-> TRUE, out |-> <<EncodeRune(d.r)>> \o unquoteFrom(s, border, r + 6).out]

unquoteFrom(s, border, r) ==
  IF r > Len(s) THEN [ok |-> TRUE, out |-> <<>>]
  ELSE LET c == s[r]
       IN IF c = "\\"
          THEN IF r + 1 > Len(s) THEN [ok |-> FALSE, out |-> <<>>]
               ELSE IF s[r + 1] = "u"
               THEN unquoteEscape(s, border, r, decodeUnicodeEscape(SubSeq(s, r, Len(s))))
               ELSE LET e == s[r + 1]
                        decode == CASE e = "b" -> BackSpace
                                    [] e = "n" -> "\n"
                                    [] e = "r" -> "\r"
                                    [] e = "t" -> "\t"
                                    [] e = "f" -> "\f"
                                    [] OTHER -> e
                        rest == unquoteFrom(s, border, r + 2)
                    IN IF e \in {"b", "n", "r", "t", "f", border, "\\", "/", "'"} /\ rest.ok
                       THEN [ok |-> TRUE, out |-> <<decode>> \o rest.out]
                       ELSE [ok |-> FALSE, out |-> <<>>]
          ELSE IF c = border \/ c \in {BackSpace, "\n", "\r", "\t", "\f"}
               THEN [ok |-> FALSE, out |-> <<>>]
          ELSE LET rest == unquoteFrom(s, border, r + 1)
               IN IF rest.ok THEN [ok |-> TRUE, out |-> <<c>> \o rest.out]
                  ELSE [ok |-> FALSE, out |-> <<>>]

\* Unquote
Unquote(s, border) ==
  IF Len(s) < 2 \/ s[1] # border \/ s[Len(s)] # border THEN [ok |-> FALSE, out |-> <<>>]
  ELSE unquoteFrom(SubSeq(s, 2, Len(s) - 1), border, 1)

\* strconv.Quote, for the bytes of the model
RECURSIVE quoteBody(_)
quoteBody(s) ==
  IF s = <<>> THEN <<>>
  ELSE LET c == Head(s)
       IN (CASE c = "\"" -> <<"\\", "\"">>
             [] c = "\\" -> <<"\\", "\\">>
             [] c = BackSpace -> <<"\\", "b">>
             [] c = "\n" -> <<"\\", "n">>
             [] c = "\r" -> <<"\\", "r">>
             [] c = "\t" -> <<"\\", "t">>
             [] c = "\f" -> <<"\\", "f">>
             [] OTHER -> <<c>>) \o quoteBody(Tail(s))

Quote(s) == <<"\"">> \o quoteBody(s) \o <<"\"">>

DigitOf(c) == CHOOSE d \in 0..9 : DigitChars[d + 1] = c
IsDigit(c) == \E d \in 0..9 : DigitChars[d + 1] = c

\* the integers of the literals.  The integers of the code have 64 bits; the
\* model gives them IntBits bits and keeps every test of the code
IntBits == 8
maxUint64 == 2 ^ IntBits - 1
absMinInt64 == 2 ^ (IntBits - 1)
maxInt64 == absMinInt64 - 1

\* the codes of the bytes of the model
ByteValue(c) ==
  CASE c = "-" -> 45
    [] c = "+" -> 43
    [] c = "." -> 46
    [] c = "/" -> 47
    [] IsDigit(c) -> 48 + DigitOf(c)
    [] c = ":" -> 58
    [] c = "?" -> 63
    [] c = "@" -> 64
    [] c = "E" -> 69
    [] c = "e" -> 101
    [] OTHER -> 97

\* notDigit: (c & 0xF0) != 0x30
notDigit(c) == (ByteValue(c) \div 16) # 3

\* trimNegativeSign
trimNegativeSign(bytes) ==
  IF bytes[1] = "-" THEN [neg |-> TRUE, trimmed |-> Tail(bytes)]
  ELSE [neg |-> FALSE, trimmed |-> bytes]

\* lower: c | 0x20
lower(c) == IF c = "E" THEN "e" ELSE c

\* strconv.Atoi, for the strings of the model, which are shorter than the 19
\* bytes of its fast path: an optional sign and a run of digits
RECURSIVE digitsValue(_, _)
digitsValue(bytes, man) ==
  IF bytes = <<>> THEN man ELSE digitsValue(Tail(bytes), man * 10 + DigitOf(Head(bytes)))

Atoi(s) ==
  LET digits == IF s # <<>> /\ Head(s) \in {"+", "-"} THEN Tail(s) ELSE s
  IN IF digits = <<>> \/ \E i \in 1..Len(digits) : ~IsDigit(digits[i])
     THEN [err |-> TRUE, value |-> 0]
     ELSE [err |-> FALSE,
           value |-> IF Head(s) = "-" THEN 0 - digitsValue(digits, 0)
                     ELSE digitsValue(digits, 0)]

\* extractMantissaAndExp10: err is "" for nil
Mantissa(man, exp10, err) == [man |-> man, exp10 |-> exp10, err |-> err]

RECURSIVE extractLoop(_, _, _, _)
extractLoop(bytes, man, exp10, decimalFound) ==
  IF bytes = <<>> THEN Mantissa(man, exp10, "")
  ELSE IF Head(bytes) = "."
  THEN (IF decimalFound THEN Mantissa(0, 0, "points")
        ELSE extractLoop(Tail(bytes), man, exp10, TRUE))
  ELSE IF notDigit(Head(bytes)) THEN Mantissa(0, 0, "digit")
  ELSE IF man > (maxUint64 - (ByteValue(Head(bytes)) - 48)) \div 10
  THEN Mantissa(0, 0, "range")
  ELSE extractLoop(Tail(bytes), man * 10 + (ByteValue(Head(bytes)) - 48),
                   IF decimalFound THEN exp10 - 1 ELSE exp10, decimalFound)

extractMantissaAndExp10(bytes) == extractLoop(bytes, 0, 0, FALSE)

\* the split of ParseFloatLiteral at the first e or E: exponentPart is nil
\* (the empty sequence) when there is none
RECURSIVE exponentAt(_, _)
exponentAt(bytes, i) ==
  IF i > Len(bytes) THEN 0
  ELSE IF lower(bytes[i]) = "e" THEN i
  ELSE exponentAt(bytes, i + 1)

mantissaPart(bytes) ==
  IF exponentAt(bytes, 1) = 0 THEN bytes ELSE SubSeq(bytes, 1, exponentAt(bytes, 1) - 1)

exponentPart(bytes) ==
  IF exponentAt(bytes, 1) = 0 THEN <<>>
  ELSE SubSeq(bytes, exponentAt(bytes, 1) + 1, Len(bytes))

\* eiselLemire64(man, exp10, neg): the decimal it is given, exactly
eiselLemire64(man, exp10, neg) ==
  IF exp10 = 0 THEN (IF neg THEN 0 - man ELSE man) ELSE <<man, exp10, neg>>

\* ParseFloatLiteral: why is "" for a nil error
Float(value, why) == [err |-> why # "", value |-> value, why |-> why]

floatOf(neg, m, exponent) ==
  IF m.err # "" THEN Float(0 - 1, m.err)
  ELSE IF Len(exponent) > 0
  THEN (IF Atoi(exponent).err THEN Float(0 - 1, "exponent")
        ELSE Float(eiselLemire64(m.man, m.exp10 + Atoi(exponent).value, neg), ""))
  ELSE Float(eiselLemire64(m.man, m.exp10, neg), "")

ParseFloatLiteral(bytes) ==
  IF Len(bytes) = 0 THEN Float(0 - 1, "empty")
  ELSE LET t == trimNegativeSign(bytes)
       IN floatOf(t.neg, extractMantissaAndExp10(mantissaPart(t.trimmed)),
                  exponentPart(t.trimmed))

\* fmt.Sprintf("%g", v), for the natural numbers of the model
FormatG(v) == Itoa(v)

\* ------------------------------------------------- the decoder (decode.go)
maxNestingDepth == 10000

\* NewNode: the struct is allocated at the pointer id; key is NoKey or <<k>>
NewNode(h, id, prev, b, doc, typ, key) ==
  LET curr == NodeRec(prev, EmptyMap, key, doc, NoValue, typ, NoIndex, <<b.index, 0>>, FALSE)
  IN IF prev = NIL THEN Res(Alloc(h, id, curr), "ok")
     ELSE IF IsArray(h, prev)
          THEN LET size == MapLen(h[prev].next)
                   h1 == Alloc(h, id, [curr EXCEPT !.index = size])
               IN Res([h1 EXCEPT ![prev].next = MapPut(@, Itoa(size), id)], "ok")
     ELSE IF IsObject(h, prev)
          THEN IF key = NoKey THEN Res(Alloc(h, id, curr), "panic")
               ELSE LET h1 == Alloc(h, id, curr)
                    IN Res([h1 EXCEPT ![prev].next = MapPut(@, key[1], id)], "ok")
     ELSE Res(h, "err")

\* root
RECURSIVE rootFrom(_, _, _)
rootFrom(h, curr, fuel) ==
  IF h[curr].prev = NIL \/ fuel = 0 THEN curr ELSE rootFrom(h, h[curr].prev, fuel - 1)
root(h, n) == rootFrom(h, n, Cardinality(DOMAIN h))

\* isValidContainerType without the kind and without ready
anyCurrent(h, current, nodeType) == current # NIL

isValidContainerType(h, current, nodeType) ==
  current # NIL /\ h[current].nodeType = nodeType /\ ~ready(h, current)

\* updateNode on the decoder state d
updateNode(d, decreaseLevel) ==
  LET h1 == [d.h EXCEPT ![d.current].borders = <<@[1], d.b.index + 1>>]
      prev == h1[d.current].prev
  IN IF prev = NIL THEN [d EXCEPT !.h = h1]
     ELSE [d EXCEPT !.h = h1, !.current = prev,
                    !.nesting = IF decreaseLevel THEN @ - 1 ELSE @]

\* the outcome of Unmarshal
Decoded(d, res) == [res |-> res, h |-> d.h, used |-> d.used, root |-> NIL]

\* one token of the decoding loop: the decoder state after it, and the
\* outcome ("ok": go on with the loop)
\* d = [b, doc, key, current, nesting, h, used]
createNode(d, typ) ==
  LET r == NewNode(d.h, d.used + 1, d.current, d.b, d.doc, typ, d.key)
  IN [res |-> r.res,
      d |-> [d EXCEPT !.h = r.h, !.used = @ + 1, !.current = d.used + 1, !.key = NoKey]]

decodeState(d, state, spare) ==
  LET fail == [res |-> "err", d |-> d]
  IN IF state = "__" THEN fail
     ELSE IF state \notin ActionStates
     THEN CASE state = "ST" ->
                 IF d.current # NIL /\ IsObject(d.h, d.current) /\ d.key = NoKey
                 THEN LET start == d.b.index
                          sb == string(d.b)
                          sl == Slice(d.b.data, spare, start, sb.b.index + 1)
                          value == Unquote(sl.out, "\"")
                      IN IF sb.err THEN fail
                         ELSE IF sl.res = "panic" THEN [res |-> "panic", d |-> d]
                         ELSE IF ~value.ok THEN fail
                         ELSE [res |-> "ok",
                               d |-> [d EXCEPT !.b = [sb.b EXCEPT !.state = "CO"],
                                               !.key = <<value.out>>]]
                 ELSE IF d.nesting >= maxNestingDepth THEN fail
                 ELSE LET c == createNode([d EXCEPT !.nesting = @ + 1], String)
                          sb == string(c.d.b)
                      IN IF c.res # "ok" THEN c
                         ELSE IF sb.err THEN [res |-> "err", d |-> c.d]
                         ELSE LET u == updateNode([c.d EXCEPT !.b = sb.b], TRUE)
                              IN [res |-> "ok", d |-> [u EXCEPT !.b.state = "OK"]]
            [] state \in {"MI", "ZE", "IN"} ->
                 LET c == createNode(d, Number)
                     nb == numeric(c.d.b)
                 IN IF c.res # "ok" THEN c
                    ELSE IF nb.err THEN [res |-> "err", d |-> c.d]
                    ELSE LET cur == c.d.current
                             h1 == [c.d.h EXCEPT ![cur].borders = <<@[1], nb.b.index>>]
                         IN [res |-> "ok",
                             d |-> [c.d EXCEPT
                                      !.h = h1,
                                      !.current = IF h1[cur].prev # NIL THEN h1[cur].prev
                                                  ELSE cur,
                                      !.b = [nb.b EXCEPT !.index = @ - 1, !.state = "OK"]]]
            [] state \in {"T1", "F1", "N1"} ->
                 LET c == createNode(d, IF state = "N1" THEN Null ELSE Boolean)
                     literal == CASE state = "T1" -> trueLiteral
                                  [] state = "F1" -> falseLiteral
                                  [] OTHER -> nullLiteral
                     wb == word(c.d.b, literal)
                 IN IF c.res # "ok" THEN c
                    ELSE IF wb.err THEN [res |-> "err", d |-> c.d]
                    ELSE LET u == updateNode([c.d EXCEPT !.b = wb.b], FALSE)
                         IN [res |-> "ok", d |-> [u EXCEPT !.b.state = "OK"]]
            [] OTHER -> [res |-> "ok", d |-> d]
     ELSE CASE state \in {"ec", "cc"} ->
                 IF d.key # NoKey THEN fail
                 ELSE IF ~isValidContainerType(d.h, d.current, Object) THEN fail
                 ELSE [res |-> "ok", d |-> [updateNode(d, TRUE) EXCEPT !.b.state = "OK"]]
            [] state = "bc" ->
                 IF ~isValidContainerType(d.h, d.current, Array) THEN fail
                 ELSE [res |-> "ok", d |-> [updateNode(d, TRUE) EXCEPT !.b.state = "OK"]]
            [] state \in {"co", "bo"} ->
                 IF d.nesting >= maxNestingDepth THEN fail
                 ELSE LET c == createNode([d EXCEPT !.nesting = @ + 1],
                                          IF state = "co" THEN Object ELSE Array)
                      IN IF c.res # "ok" THEN c
                         ELSE [res |-> "ok",
                               d |-> [c.d EXCEPT !.b.state = IF state = "co" THEN "OB"
                                                             ELSE "AR"]]
            [] state = "cm" ->
                 IF d.current = NIL THEN fail
                 ELSE IF IsObject(d.h, d.current)
                      THEN [res |-> "ok", d |-> [d EXCEPT !.b.state = "KE"]]
                 ELSE IF IsArray(d.h, d.current)
                      THEN [res |-> "ok", d |-> [d EXCEPT !.b.state = "VA"]]
                 ELSE fail
            [] state = "cl" ->
                 IF d.current = NIL \/ ~IsObject(d.h, d.current) \/ d.key = NoKey THEN fail
                 ELSE [res |-> "ok", d |-> [d EXCEPT !.b.state = "VA"]]
            [] OTHER -> fail

\* getState, then the switch on the state it returns
decodeGot(d, spare) ==
  decodeState(d, IF d.b.class = "__" THEN "__" ELSE d.b.state, spare)

decodeToken(d0, spare) == decodeGot([d0 EXCEPT !.b = getState(d0.b)], spare)

\* the end of Unmarshal, after the loop
decodeEnd(d) ==
  IF d.current = NIL \/ d.b.state # "OK" THEN Decoded(d, "err")
  ELSE LET r == root(d.h, d.current)
       IN IF ~ready(d.h, r) THEN Decoded(d, "err")
          ELSE [res |-> "ok", h |-> d.h, used |-> d.used, root |-> r]

\* the decoding loop: after the token t, s is the buffer after step and f the
\* buffer after first
RECURSIVE decodeLoop(_, _)
decodeNext(t, s, f, spare) ==
  IF t.res # "ok" THEN Decoded(t.d, t.res)
  ELSE IF s.err THEN decodeEnd([t.d EXCEPT !.b = s.b])
  ELSE IF f.err THEN decodeEnd([t.d EXCEPT !.b = f.b])
  ELSE decodeLoop([t.d EXCEPT !.b = f.b], spare)

decodeStep(t, spare) == decodeNext(t, step(t.d.b), first(step(t.d.b).b), spare)

decodeLoop(d, spare) == decodeStep(decodeToken(d, spare), spare)

\* Unmarshal of the slice data; the structs are allocated in h at the pointers
\* after used
Unmarshal(h, used, data) ==
  LET f == first(newBuffer(data.bytes))
      d == [b |-> f.b, doc |-> <<data>>, key |-> NoKey, current |-> NIL, nesting |-> 0,
            h |-> h, used |-> used]
  IN IF f.err THEN Decoded(d, "err") ELSE decodeLoop(d, data.spare)

\* ------------------------------------------------------- the documents
\* the byte slices given to Unmarshal
Docs ==
  << Doc(<<"1">>, <<>>),
     Doc(<<"[", "1", "]">>, <<>>),
     Doc(<<"[", "1", ",", "2", "]">>, <<>>),
     Doc(<<"{", "\"", "a", "\"", ":", "1", "}">>, <<>>),
     Doc(<<"\"", "a", "\"">>, <<>>),
     Doc(<<"\"", "a">>, <<>>),
     Doc(<<"\"", "a">>, <<"x">>),
     Doc(<<"]">>, <<>>) >>

\* ---------------------------------------------- source, Value and Marshal
\* source: the bytes data[borders[0]:borders[1]] of a ready, unmodified node
\* that has data, else nil
source(h, n) ==
  IF ready(h, n) /\ ~h[n].modified /\ h[n].data # NoData
  THEN Slice(h[n].data[1].bytes, h[n].data[1].spare, h[n].borders[1], h[n].borders[2])
  ELSE [res |-> "ok", out |-> <<>>]

Reverse(s) == [i \in 1..Len(s) |-> s[Len(s) + 1 - i]]

\* the order in which a range over the map next of n visits its keys: the
\* nodes in rev visit them in the reverse of the order of the other nodes
RangeOrder(h, n, rev) ==
  IF n \in rev THEN Reverse(SetToSeq(DOMAIN h[n].next)) ELSE SetToSeq(DOMAIN h[n].next)

\* the loop of Value over the map next of an array, in the order keys of
\* the range: elems[*e.index] = e; a nil index and an index beyond the slice
\* end the program
RECURSIVE elemsLoop(_, _, _, _)
elemsLoop(h, n, keys, elems) ==
  IF keys = <<>> THEN [res |-> "ok", elems |-> elems]
  ELSE LET e == h[n].next[Head(keys)]
       IN IF h[e].index = NoIndex \/ h[e].index >= Len(elems)
          THEN [res |-> "panic", elems |-> elems]
          ELSE elemsLoop(h, n, Tail(keys), [elems EXCEPT ![h[e].index + 1] = e])

\* Value: the value, cached in the node when it is computed from the source
\* or, for an array (<<"arr", elems>>) and an object (<<"map", obj>>), from
\* the map next; the range over next of the nodes in rev goes the reverse way
cached(h, n, v) == [res |-> "ok", value |-> v, h |-> [h EXCEPT ![n].value = v]]
uncached(h, res) == [res |-> res, value |-> NoValue, h |-> h]

numberValue(h, n, f) ==
  IF f.err THEN uncached(h, "err") ELSE cached(h, n, <<"num", f.value>>)

stringValue(h, n, u) ==
  IF ~u.ok THEN uncached(h, "err") ELSE cached(h, n, <<"str", u.out>>)

boolValue(h, n, src) ==
  IF Len(src.out) = 0 THEN uncached(h, "err")
  ELSE cached(h, n, <<"bool", src.out[1] \in {"t", "T"}>>)

arrayValue(h, n, l) ==
  IF l.res # "ok" THEN uncached(h, l.res) ELSE cached(h, n, <<"arr", l.elems>>)

sourcedValue(h, n, src) ==
  IF src.res = "panic" THEN uncached(h, "panic")
  ELSE CASE h[n].nodeType = Number -> numberValue(h, n, ParseFloatLiteral(src.out))
         [] h[n].nodeType = String -> stringValue(h, n, Unquote(src.out, "\""))
         [] OTHER -> boolValue(h, n, src)

ValueRanged(h, n, rev) ==
  IF h[n].value # NoValue THEN [res |-> "ok", value |-> h[n].value, h |-> h]
  ELSE CASE h[n].nodeType = Null -> [res |-> "ok", value |-> NoValue, h |-> h]
         [] h[n].nodeType \in {Number, String, Boolean} -> sourcedValue(h, n, source(h, n))
         [] h[n].nodeType = Array ->
              arrayValue(h, n, elemsLoop(h, n, RangeOrder(h, n, rev),
                                         [i \in 1..MapLen(h[n].next) |-> NIL]))
         [] h[n].nodeType = Object -> cached(h, n, <<"map", h[n].next>>)
         [] OTHER -> [res |-> "ok", value |-> NoValue, h |-> h]

Value(h, n) == ValueRanged(h, n, {})

\* GetArray and GetObject: Value, and its dynamic type is checked.  The
\* cached value <<"obj", id>> of a node that ObjectNode made, or a clone of
\* it, is the map that ObjectNode was given, which is the map next of id.
\* err tells whether an error was returned
arrayOfValue(v) ==
  IF v.res # "ok" THEN [res |-> v.res, err |-> TRUE, value |-> <<>>, h |-> v.h]
  ELSE IF v.value = NoValue \/ v.value[1] # "arr"
  THEN [res |-> "err", err |-> TRUE, value |-> <<>>, h |-> v.h]
  ELSE [res |-> "ok", err |-> FALSE, value |-> v.value[2], h |-> v.h]

GetArrayRanged(h, n, rev) ==
  IF n = NIL \/ h[n].nodeType # Array
  THEN [res |-> "err", err |-> TRUE, value |-> <<>>, h |-> h]
  ELSE arrayOfValue(ValueRanged(h, n, rev))

GetArray(h, n) == GetArrayRanged(h, n, {})

objectOfValue(h, v) ==
  IF v.res # "ok" THEN [res |-> v.res, err |-> TRUE, value |-> EmptyMap, h |-> v.h]
  ELSE IF v.value # NoValue /\ v.value[1] = "map"
  THEN [res |-> "ok", err |-> FALSE, value |-> v.value[2], h |-> v.h]
  ELSE IF v.value # NoValue /\ v.value[1] = "obj"
  THEN [res |-> "ok", err |-> FALSE, value |-> h[v.value[2]].next, h |-> v.h]
  ELSE [res |-> "err", err |-> TRUE, value |-> EmptyMap, h |-> v.h]

GetObject(h, n) ==
  IF n = NIL \/ ~IsObject(h, n)
  THEN [res |-> "err", err |-> TRUE, value |-> EmptyMap, h |-> h]
  ELSE objectOfValue(h, Value(h, n))

\* GetNumeric, GetString, GetBool: Value, and its dynamic type is checked
typed(v, tag) ==
  IF v.res # "ok" THEN v
  ELSE IF v.value = NoValue \/ v.value[1] # tag THEN [v EXCEPT !.res = "err"]
  ELSE v

GetTyped(h, n, tag) == typed(Value(h, n), tag)

\* Marshal, with its loops over the elements of an array from i and over the
\* members of an object from the j-th key of keys.  The outcome holds the
\* bytes written and the heap (Value caches what it computes); fuel bounds the
\* depth of the recursion, which ends only with the stack on a cyclic graph
RECURSIVE Marshal(_, _, _, _)
RECURSIVE marshalArray(_, _, _, _, _)
RECURSIVE marshalObject(_, _, _, _, _, _)
\* the bytes of a modified scalar whose typed getter returned v
marshalScalar(v) ==
  IF v.res # "ok" THEN [res |-> v.res, out |-> <<>>, h |-> v.h]
  ELSE [res |-> "ok", h |-> v.h,
        out |-> CASE v.value[1] = "num" -> FormatG(v.value[2])
                  [] v.value[1] = "str" -> Quote(v.value[2])
                  [] OTHER -> IF v.value[2] THEN trueLiteral ELSE falseLiteral]

\* the bytes of a modified container whose elements gave r, between the
\* bytes open and close
marshalContainer(r, open, close) ==
  IF r.res # "ok" THEN r ELSE [res |-> "ok", out |-> open \o r.out \o close, h |-> r.h]

Marshal(h, node, rev, fuel) ==
  LET done(res, out, hh) == [res |-> res, out |-> out, h |-> hh]
  IN IF node = NIL THEN done("err", <<>>, h)
     ELSE IF fuel = 0 THEN done("panic", <<>>, h)
     ELSE IF h[node].modified
     THEN CASE h[node].nodeType = Null -> done("ok", nullLiteral, h)
            [] h[node].nodeType = Number -> marshalScalar(GetTyped(h, node, "num"))
            [] h[node].nodeType = String -> marshalScalar(GetTyped(h, node, "str"))
            [] h[node].nodeType = Boolean -> marshalScalar(GetTyped(h, node, "bool"))
            [] h[node].nodeType = Array ->
                 marshalContainer(marshalArray(h, node, 0, rev, fuel), <<"[">>, <<"]">>)
            [] h[node].nodeType = Object ->
                 marshalContainer(marshalObject(h, node, RangeOrder(h, node, rev), 1, rev, fuel),
                                  <<"{">>, <<"}">>)
            [] OTHER -> done("ok", <<>>, h)
     ELSE IF ready(h, node)
     THEN LET src == source(h, node)
          IN IF src.res = "panic" THEN done("panic", <<>>, h) ELSE done("ok", src.out, h)
     ELSE done("err", <<>>, h)

marshalArray(h, node, i, rev, fuel) ==
  IF i >= MapLen(h[node].next) THEN [res |-> "ok", out |-> <<>>, h |-> h]
  ELSE IF Itoa(i) \notin DOMAIN h[node].next THEN [res |-> "err", out |-> <<>>, h |-> h]
  ELSE LET e == Marshal(h, h[node].next[Itoa(i)], rev, fuel - 1)
       IN IF e.res # "ok" THEN e
          ELSE LET r == marshalArray(e.h, node, i + 1, rev, fuel)
               IN IF r.res # "ok" THEN r
                  ELSE [r EXCEPT !.out = (IF i # 0 THEN <<",">> ELSE <<>>) \o e.out \o @]

marshalObject(h, node, keys, j, rev, fuel) ==
  IF j > Len(keys) THEN [res |-> "ok", out |-> <<>>, h |-> h]
  ELSE LET e == Marshal(h, h[node].next[keys[j]], rev, fuel - 1)
       IN IF e.res # "ok" THEN e
          ELSE LET r == marshalObject(e.h, node, keys, j + 1, rev, fuel)
               IN IF r.res # "ok" THEN r
                  ELSE [r EXCEPT !.out = (IF j # 1 THEN <<",">> ELSE <<>>)
                                         \o Quote(keys[j]) \o <<":">> \o e.out \o @]

\* ---------------------------------------------------------- the inputs
\* the key given to a constructor
CtorKeys == {<<>>}
\* the member names used by ObjectNode, SetObject and AppendObject
ObjKeys == {<<"a">>, <<"b">>}
\* the values given to NumberNode and SetNumber, StringNode and SetString
NumValues == {5}
StrValues == {<<"a", "\"">>}
\* the indices given to DeleteIndex
IdxValues == (0 - 1)..1

\* the slices given to ArrayNode: one node, or the same node twice
NodeLists(S) == {<<a>> : a \in S} \cup {<<a, a>> : a \in S}
\* the slices given to n.SetArray and n.AppendArray: one node, or a node
\* followed by n itself
NodeListsFor(S, n) == {<<a>> : a \in S} \cup {<<a, n>> : a \in S}
\* the maps given to ObjectNode and SetObject, in an iteration order: one
\* member, or the same node under both names
NodePairs(S) ==
  {<<(<<k, a>>)>> : k \in ObjKeys, a \in S}
  \cup {<<(<<ks[1], a>>), (<<ks[2], a>>)>> :
          ks \in {x \in ObjKeys \X ObjKeys : x[1] # x[2]}, a \in S}

\* ------------------------------------------------------------- the state
VARIABLES
  heap,   \* the Node structs, by pointer
  used,   \* the number of structs allocated: the pointers are 1..used
  steps,  \* the number of calls made
  last,   \* the last call: its name, receiver, arguments, outcome and output
  failed  \* some call so far did not return normally without an error

vars == <<heap, used, steps, last, failed>>

Nodes == 1..used

Call(op, n, nodes, key, idx, new, res) ==
  [op |-> op, n |-> n, nodes |-> nodes, key |-> key, idx |-> idx, new |-> new, res |-> res,
   out |-> <<>>]

Init ==
  /\ heap = <<>>
  /\ used = 0
  /\ steps = 0
  /\ last = Call("init", NIL, <<>>, NoKey, 0, NIL, "ok")
  /\ failed = FALSE

\* the receivers of the calls on arrays and of the calls on objects
Arrays(h) == {n \in DOMAIN h : IsArray(h, n)}
Objects(h) == {n \in DOMAIN h : IsObject(h, n)}

\* a call can be made: the program has neither crashed nor hung
Running == steps < MaxSteps /\ last.res \in {"ok", "err"}

\* the effect of a call that allocates nothing
Mutate(op, n, nodes, key, idx, r) ==
  /\ heap' = r.h
  /\ used' = used
  /\ steps' = steps + 1
  /\ last' = Call(op, n, nodes, key, idx, NIL, r.res)
  /\ failed' = (failed \/ r.res # "ok")

\* the effect of a constructor
Construct(op, nodes, h) ==
  /\ heap' = h
  /\ used' = used + 1
  /\ steps' = steps + 1
  /\ last' = Call(op, NIL, nodes, NoKey, 0, used + 1, "ok")
  /\ failed' = failed

DoNullNode ==
  /\ Running /\ used < MaxNodes
  /\ \E key \in CtorKeys : Construct("NullNode", <<>>, NullNode(heap, used + 1, key))

DoNumberNode ==
  /\ Running /\ used < MaxNodes
  /\ \E key \in CtorKeys, v \in NumValues :
       Construct("NumberNode", <<>>, NumberNode(heap, used + 1, key, v))

DoStringNode ==
  /\ Running /\ used < MaxNodes
  /\ \E key \in CtorKeys, v \in StrValues :
       Construct("StringNode", <<>>, StringNode(heap, used + 1, key, v))

DoArrayNode ==
  /\ Running /\ used < MaxNodes
  /\ \E key \in CtorKeys, value \in {<<>>} \cup {<<l>> : l \in NodeLists(Nodes)} :
       Construct("ArrayNode", IF value = <<>> THEN <<>> ELSE value[1],
                 ArrayNode(heap, used + 1, key, value))

DoObjectNode ==
  /\ Running /\ used < MaxNodes
  /\ \E key \in CtorKeys, value \in {<<>>} \cup {<<p>> : p \in NodePairs(Nodes)} :
       Construct("ObjectNode",
                 IF value = <<>> THEN <<>> ELSE [i \in 1..Len(value[1]) |-> value[1][i][2]],
                 ObjectNode(heap, used + 1, key, value))

DoSetNull ==
  /\ Running
  /\ \E n \in Nodes : Mutate("SetNull", n, <<>>, NoKey, 0, update(heap, n, Null, NoValue))

DoSetNumber ==
  /\ Running
  /\ \E n \in Nodes, v \in NumValues :
       Mutate("SetNumber", n, <<>>, NoKey, 0, update(heap, n, Number, <<"num", v>>))

DoSetString ==
  /\ Running
  /\ \E n \in Nodes, v \in StrValues :
       Mutate("SetString", n, <<>>, NoKey, 0, update(heap, n, String, <<"str", v>>))

DoSetArray ==
  /\ Running
  /\ \E n \in Nodes : \E val \in {<<>>} \cup NodeListsFor(Nodes, n) :
       Mutate("SetArray", n, val, NoKey, 0, update(heap, n, Array, val))

DoSetObject ==
  /\ Running
  /\ \E n \in Nodes, val \in {<<>>} \cup NodePairs(Nodes) :
       Mutate("SetObject", n, [i \in 1..Len(val) |-> val[i][2]], NoKey, 0,
              update(heap, n, Object, val))

DoSetNode ==
  /\ Running
  /\ \E n \in Nodes, val \in Nodes :
       /\ used + Max0(CloneSize(heap, val) - 1) <= MaxNodes
       /\ LET r == SetNode(heap, n, val, used)
          IN /\ heap' = r.h
             /\ used' = r.used
             /\ steps' = steps + 1
             /\ last' = Call("SetNode", n, <<val>>, NoKey, 0, NIL, r.res)
             /\ failed' = (failed \/ r.res # "ok")

DoDelete ==
  /\ Running
  /\ \E n \in Nodes : Mutate("Delete", n, <<>>, NoKey, 0, Delete(heap, n))

DoDeleteIndex ==
  /\ Running
  /\ \E n \in Arrays(heap), idx \in IdxValues :
       Mutate("DeleteIndex", n, <<>>, NoKey, idx, DeleteIndex(heap, n, idx))

DoAppendArray ==
  /\ Running
  /\ \E n \in Arrays(heap) : \E value \in NodeListsFor(Nodes, n) :
       Mutate("AppendArray", n, value, NoKey, 0, AppendArray(heap, n, value))

DoAppendObject ==
  /\ Running
  /\ \E n \in Objects(heap), key \in ObjKeys, value \in Nodes :
       Mutate("AppendObject", n, <<value>>, <<key>>, 0, AppendObject(heap, n, key, value))

DoClone ==
  /\ Running
  /\ \E n \in Nodes :
       IF CloneSize(heap, n) < 0
       THEN /\ heap' = heap /\ used' = used /\ steps' = steps + 1
            /\ last' = Call("Clone", n, <<>>, NoKey, 0, NIL, "panic")
            /\ failed' = TRUE
       ELSE /\ used + CloneSize(heap, n) <= MaxNodes
            /\ LET c == Clone(heap, n, used)
               IN /\ heap' = c.h
                  /\ used' = c.used
                  /\ steps' = steps + 1
                  /\ last' = Call("Clone", n, <<>>, NoKey, 0, c.id, "ok")
                  /\ failed' = failed

\* Unmarshal of a document; the structs of a failed call are unreachable
DoUnmarshal ==
  /\ Running
  /\ \E doc \in DOMAIN Docs :
       \E r \in {Unmarshal(heap, used, Docs[doc])} :
          /\ r.used <= MaxNodes
          /\ steps' = steps + 1
          /\ IF r.res = "ok"
             THEN /\ heap' = r.h /\ used' = r.used
                  /\ last' = Call("Unmarshal", NIL, <<>>, NoKey, doc, r.root, "ok")
                  /\ failed' = failed
             ELSE /\ heap' = heap /\ used' = used
                  /\ last' = Call("Unmarshal", NIL, <<>>, NoKey, doc, NIL, r.res)
                  /\ failed' = TRUE

\* the objects whose range can visit the members in more than one order
ManyMembers(h) == {n \in DOMAIN h : IsObject(h, n) /\ MapLen(h[n].next) > 1}

DoMarshal ==
  /\ Running
  /\ \E n \in Nodes, rev \in SUBSET ManyMembers(heap) :
       \E r \in {Marshal(heap, n, rev, used + 1)} :
          /\ heap' = r.h
          /\ used' = used
          /\ steps' = steps + 1
          /\ last' = [Call("Marshal", n, <<>>, NoKey, 0, NIL, r.res) EXCEPT !.out = r.out]
          /\ failed' = (failed \/ r.res # "ok")

\* the arrays that hold two nodes with the same index: the range of Value
\* can visit them in more than one order
SharedIndex(h) ==
  {n \in Arrays(h) : \E j \in DOMAIN h[n].next, k \in DOMAIN h[n].next :
                       /\ h[n].next[j] # h[n].next[k]
                       /\ h[h[n].next[j]].index = h[h[n].next[k]].index}

\* n.GetArray(): the slice is in out
DoGetArray ==
  /\ Running
  /\ \E n \in Arrays(heap) :
       \E r \in {GetArrayRanged(heap, n, rev) : rev \in SUBSET (SharedIndex(heap) \cap {n})} :
          /\ heap' = r.h
          /\ used' = used
          /\ steps' = steps + 1
          /\ last' = [Call("GetArray", n, <<>>, NoKey, 0, NIL, r.res) EXCEPT !.out = r.value]
          /\ failed' = (failed \/ r.res # "ok")

\* n.GetObject(): the map is in out
DoGetObject ==
  /\ Running
  /\ \E n \in Objects(heap) :
       \E r \in {GetObject(heap, n)} :
          /\ heap' = r.h
          /\ used' = used
          /\ steps' = steps + 1
          /\ last' = [Call("GetObject", n, <<>>, NoKey, 0, NIL, r.res) EXCEPT !.out = r.value]
          /\ failed' = (failed \/ r.res # "ok")

Next ==
  \/ DoNullNode \/ DoNumberNode \/ DoStringNode
  \/ DoArrayNode \/ DoObjectNode
  \/ DoSetNull \/ DoSetNumber \/ DoSetString
  \/ DoSetArray \/ DoSetObject \/ DoSetNode
  \/ DoDelete \/ DoDeleteIndex \/ DoAppendArray \/ DoAppendObject
  \/ DoClone
  \/ DoUnmarshal \/ DoMarshal
  \/ DoGetArray \/ DoGetObject

Spec == Init /\ [][Next]_vars

\* ------------------------------------------------- notions of the claims
\* the children of n
Children(h, n) == {h[n].next[k] : k \in DOMAIN h[n].next}

\* the nodes met by following the parent links from curr, in at most fuel steps
RECURSIVE climb(_, _, _)
climb(h, curr, fuel) ==
  IF curr = NIL \/ fuel = 0 THEN {} ELSE {curr} \cup climb(h, h[curr].prev, fuel - 1)

\* the ancestors of n
Ancestors(h, n) == climb(h, h[n].prev, Cardinality(DOMAIN h))

\* following the parent links from n reaches a node without a parent
RECURSIVE reaches(_, _, _)
reaches(h, curr, fuel) ==
  IF h[curr].prev = NIL THEN TRUE
  ELSE IF fuel = 0 THEN FALSE
  ELSE reaches(h, h[curr].prev, fuel - 1)

ReachesRoot(h, n) == reaches(h, n, Cardinality(DOMAIN h))

\* the program has neither crashed nor hung
Alive == last.res \in {"ok", "err"}

\* the calls that change a node
Mutators ==
  {"SetNull", "SetNumber", "SetString", "SetArray", "SetObject", "SetNode",
   "AppendArray", "AppendObject", "Delete", "DeleteIndex"}

\* C1: no cycle is ever created: AppendArray and AppendObject fail when a node
\* they are given is the receiver or one of its ancestors, and after every call
\* the parent links of every node lead to a node without a parent
C1_NoCycle ==
  [][/\ (/\ last'.op \in {"AppendArray", "AppendObject"}
         /\ \E i \in DOMAIN last'.nodes :
              last'.nodes[i] \in {last'.n} \cup Ancestors(heap, last'.n))
        => last'.res # "ok"
     /\ last'.res \in {"ok", "err"} => \A n \in DOMAIN heap' : ReachesRoot(heap', n)]_vars

\* an array was appended to its own element: each is the parent of the other
C1_Cycle ==
  /\ last.op = "AppendArray" /\ last.res = "ok" /\ ~failed
  /\ ~ReachesRoot(heap, last.n)
  /\ heap[last.nodes[1]].prev = last.n
  /\ last.nodes[1] \in Ancestors(heap, last.n)

\* the links of p and of its children agree
LinksAgree(h, p) ==
  /\ \A c \in Children(h, p) : h[c].prev = p
  /\ h[p].prev # NIL =>
       LET q == h[p].prev
       IN \/ /\ IsObject(h, q) /\ h[p].key # NoKey
             /\ h[p].key[1] \in DOMAIN h[q].next
             /\ h[q].next[h[p].key[1]] = p
          \/ /\ IsArray(h, q) /\ h[p].index >= 0
             /\ Itoa(h[p].index) \in DOMAIN h[q].next
             /\ h[q].next[Itoa(h[p].index)] = p

\* C2: the parent and child links are mutually consistent after every call:
\* a node with a parent is the node that the parent holds under its key or its
\* index, and every node that a container holds has the container as parent
C2_LinksConsistent == Alive => \A p \in Nodes : LinksAgree(heap, p)

\* a clone holds a child whose parent is not the clone
C2_CloneStalePrev ==
  /\ last.op = "Clone" /\ last.res = "ok" /\ ~failed
  /\ \E c \in Children(heap, last.new) : heap[c].prev # last.new

\* n and its ancestors are modified
ModifiedUp(h, n) ==
  n # NIL => h[n].modified /\ \A a \in Ancestors(h, n) : h[a].modified

\* C3: after a mutator is applied to a node, the node and all its ancestors
\* are modified (for Delete: the container that the node is taken from)
C3_ModifiedUp ==
  [][(last'.op \in Mutators /\ last'.res = "ok")
     => ModifiedUp(heap', IF last'.op = "Delete" THEN heap[last'.n].prev ELSE last'.n)]_vars

\* SetNode has given n the content of a parsed node, and n is not modified
C3_SetNodeUnmodified ==
  /\ last.op = "SetNode" /\ last.res = "ok" /\ ~failed
  /\ ~heap[last.n].modified

\* the logical content of n as canonical text: the kind and the value that
\* Value gives for a scalar, the elements of an array in the order of their
\* positions, the members of an object by name; "?" where there is none (no
\* value can be read, a position is empty, or the graph is cyclic)
RECURSIVE Content(_, _, _)
RECURSIVE contentArray(_, _, _, _)
RECURSIVE contentObject(_, _, _, _, _)
Content(h, n, fuel) ==
  IF fuel = 0 THEN <<"?">>
  ELSE CASE h[n].nodeType = Null -> nullLiteral
         [] h[n].nodeType \in {Number, String, Boolean} ->
              LET v == Value(h, n)
              IN IF v.res # "ok" \/ v.value = NoValue THEN <<"?">>
                 ELSE IF v.value[1] = "num" THEN Itoa(v.value[2])
                 ELSE IF v.value[1] = "str" THEN Quote(v.value[2])
                 ELSE IF v.value[1] = "bool"
                      THEN (IF v.value[2] THEN trueLiteral ELSE falseLiteral)
                 ELSE <<"?">>
         [] h[n].nodeType = Array -> <<"[">> \o contentArray(h, n, 0, fuel) \o <<"]">>
         [] h[n].nodeType = Object ->
              <<"{">> \o contentObject(h, n, SetToSeq(DOMAIN h[n].next), 1, fuel) \o <<"}">>
         [] OTHER -> <<"?">>

contentArray(h, n, i, fuel) ==
  IF i >= MapLen(h[n].next) THEN <<>>
  ELSE (IF i # 0 THEN <<",">> ELSE <<>>)
       \o (IF Itoa(i) \in DOMAIN h[n].next
           THEN Content(h, h[n].next[Itoa(i)], fuel - 1) ELSE <<"?">>)
       \o contentArray(h, n, i + 1, fuel)

contentObject(h, n, keys, j, fuel) ==
  IF j > Len(keys) THEN <<>>
  ELSE (IF j # 1 THEN <<",">> ELSE <<>>)
       \o Quote(keys[j]) \o <<":">> \o Content(h, h[n].next[keys[j]], fuel - 1)
       \o contentObject(h, n, keys, j + 1, fuel)

\* the content of the tree that Unmarshal builds from bytes; "!" if it fails
Decode(bytes) ==
  LET u == Unmarshal(<<>>, 0, Doc(bytes, <<>>))
  IN IF u.res = "ok" THEN Content(u.h, u.root, u.used + 1) ELSE <<"!">>

\* the bytes are the text of n: Unmarshal builds from them a tree with the
\* content of n
TextOf(h, n, bytes) == Decode(bytes) = Content(h, n, Cardinality(DOMAIN h) + 1)

\* C4: Unmarshal after Marshal is the identity on the content: after calls
\* that all succeeded, Marshal of a node without a parent succeeds, and
\* Unmarshal of its bytes builds a tree with the content of the node
C4_RoundTrip ==
  [][(last'.op = "Marshal" /\ ~failed /\ heap[last'.n].prev = NIL)
     => /\ last'.res = "ok"
        /\ TextOf(heap, last'.n, last'.out)]_vars

\* the child of a clone of a parsed array was set to a number; its parent link
\* leads to the array that was cloned, so the clone is not modified and Marshal
\* of the clone still gives the bytes that were parsed
C4_StaleClone ==
  /\ last.op = "SetNumber" /\ last.res = "ok" /\ ~failed
  /\ \E c \in Nodes :
       /\ heap[c].prev = NIL /\ IsArray(heap, c) /\ Children(heap, c) = {last.n}
       /\ heap[last.n].prev \notin {NIL, c}
       /\ last.n \notin Children(heap, heap[last.n].prev)
       /\ LET m == Marshal(heap, c, {}, used + 1)
          IN /\ m.res = "ok"
             /\ m.out = <<"[", "1", "]">>
             /\ Content(heap, c, used + 1) = <<"[", "5", "]">>
             /\ ~TextOf(heap, c, m.out)

\* C5: for every node that is not modified and comes from Unmarshal, the
\* borders lie in the data, source is the bytes of the data between them, and
\* Marshal succeeds and returns these bytes
C5_SourceVerbatim ==
  Alive =>
    \A n \in Nodes :
      (heap[n].data # NoData /\ ~heap[n].modified /\ ready(heap, n)) =>
        LET data == heap[n].data[1].bytes
            start == heap[n].borders[1]
            stop == heap[n].borders[2]
            m == Marshal(heap, n, {}, used + 1)
        IN /\ start <= stop /\ stop <= Len(data)
           /\ source(heap, n) = [res |-> "ok", out |-> SubSeq(data, start + 1, stop)]
           /\ m.res = "ok"
           /\ m.out = SubSeq(data, start + 1, stop)

\* Unmarshal has accepted a string that no quote ends, and the node that it
\* returns has its end border after the last byte of the data
C5_PastTheData ==
  /\ last.op = "Unmarshal" /\ last.res = "ok" /\ ~failed
  /\ ~heap[last.new].modified
  /\ heap[last.new].borders[2] > Len(heap[last.new].data[1].bytes)
  /\ \/ source(heap, last.new).res = "panic"
     \/ Len(source(heap, last.new).out) > Len(heap[last.new].data[1].bytes)

\* the element of the array a at the position j, NIL if there is none
Elem(h, a, j) == IF Itoa(j) \in DOMAIN h[a].next THEN h[a].next[Itoa(j)] ELSE NIL

\* the keys of the array a are "0" .. str(size - 1), and the element under
\* str(i) has the index i
Contiguous(h, a) ==
  /\ DOMAIN h[a].next = {Itoa(i) : i \in 0..(Size(h, a) - 1)}
  /\ \A i \in 0..(Size(h, a) - 1) : h[Elem(h, a, i)].index = i

\* C6: after every call, the keys of every array of size s are the decimal
\* strings "0" .. str(s-1), and the child under str(i) has the index i
C6_ArrayKeys == Alive => \A a \in Arrays(heap) : Contiguous(heap, a)

\* ArrayNode was given the second element of a parsed array: the parsed array
\* still holds it under "1", and its index is 0
C6_StolenElement ==
  /\ last.op = "ArrayNode" /\ last.res = "ok" /\ ~failed /\ Len(last.nodes) = 1
  /\ \E p \in Arrays(heap) \ {last.new} :
       /\ Elem(heap, p, 1) = last.nodes[1]
       /\ heap[last.nodes[1]].index = 0
       /\ heap[last.nodes[1]].prev = last.new

\* C7: after DeleteIndex(i) succeeds on an array of size s (a negative i
\* counts from the end), the size is s-1, an element that was at a position
\* after i is one position lower and has that index, and an element that was
\* at a position before i is where it was, with its index
C7_DeleteIndexShifts ==
  [][(last'.op = "DeleteIndex" /\ last'.res = "ok")
     => LET a == last'.n
            s == Size(heap, a)
            i == IF last'.idx < 0 THEN last'.idx + s ELSE last'.idx
        IN /\ Size(heap', a) = s - 1
           /\ \A j \in 0..(s - 1) :
                LET e == Elem(heap, a, j)
                IN /\ (e # NIL /\ j > i) =>
                        Elem(heap', a, j - 1) = e /\ heap'[e].index = j - 1
                   /\ (e # NIL /\ j < i) =>
                        Elem(heap', a, j) = e /\ heap'[e].index = j]_vars

\* DeleteIndex(0) succeeded and has left one element, at the position 0, whose
\* index is 1
C7_IndexNotShifted ==
  /\ last.op = "DeleteIndex" /\ last.res = "ok" /\ ~failed /\ last.idx = 0
  /\ Size(heap, last.n) = 1
  /\ Elem(heap, last.n, 0) # NIL
  /\ heap[Elem(heap, last.n, 0)].index = 1

\* C8: a mutator that returns an error leaves every node as it was
C8_FailureChangesNothing ==
  [][(/\ last'.op \in Mutators \ {"Delete"}
      /\ last'.res = "err")
     => heap' = heap]_vars

\* AppendArray(x, n) on the parsed array n has returned an error for n, and n
\* holds x, which it did not hold before: n is not modified, and every call that
\* gives a constructed node to a container marks the container
C8_HalfAppended ==
  /\ last.op = "AppendArray" /\ last.res = "err" /\ Len(last.nodes) = 2
  /\ last.nodes[2] = last.n /\ last.nodes[1] # last.n
  /\ heap[last.nodes[1]].prev = last.n
  /\ Elem(heap, last.n, Size(heap, last.n) - 1) = last.nodes[1]
  /\ heap[last.nodes[1]].data = NoData
  /\ heap[last.n].data # NoData /\ ~heap[last.n].modified

\* C9: for an array a and a node x that is neither a nor an ancestor of a,
\* a.AppendArray(x) succeeds; then x is the last element of a, with parent a,
\* under no other key, and the container that held x no longer holds it and,
\* if it is an array, has contiguous indices
C9_AppendArrayMoves ==
  [][(/\ last'.op = "AppendArray" /\ Len(last'.nodes) = 1
      /\ last'.nodes[1] # last'.n
      /\ last'.nodes[1] \notin Ancestors(heap, last'.n))
     => LET a == last'.n
            x == last'.nodes[1]
            p == heap[x].prev
            s == Size(heap', a)
        IN /\ last'.res = "ok"
           /\ heap'[x].prev = a
           /\ Elem(heap', a, s - 1) = x
           /\ {k \in DOMAIN heap'[a].next : heap'[a].next[k] = x} = {Itoa(s - 1)}
           /\ (p # NIL /\ p # a) =>
                /\ x \notin Children(heap', p)
                /\ IsArray(heap', p) => Contiguous(heap', p)]_vars

\* a.AppendArray(x) has returned an error for an element x of the array a,
\* which is neither a nor an ancestor of a
C9_ChildRejected ==
  /\ last.op = "AppendArray" /\ last.res = "err" /\ Len(last.nodes) = 1
  /\ last.nodes[1] # last.n
  /\ ReachesRoot(heap, last.n)
  /\ last.nodes[1] \notin Ancestors(heap, last.n)
  /\ heap[last.nodes[1]].prev = last.n
  /\ last.nodes[1] \in Children(heap, last.n)

\* C10: after o.AppendObject(k, v) succeeds, o holds v under k, and v has the
\* key k and the parent o; a different node that o held under k has no parent
\* and is not held by o; every other member of o is as it was
C10_AppendObjectPuts ==
  [][(last'.op = "AppendObject" /\ last'.res = "ok")
     => LET o == last'.n
            k == last'.key[1]
            v == last'.nodes[1]
            before == heap[o].next
            after == heap'[o].next
        IN /\ k \in DOMAIN after /\ after[k] = v
           /\ heap'[v].key = <<k>> /\ heap'[v].prev = o
           /\ (k \in DOMAIN before /\ before[k] # v) =>
                /\ heap'[before[k]].prev = NIL
                /\ before[k] \notin Children(heap', o)
           /\ DOMAIN after = DOMAIN before \cup {k}
           /\ \A k2 \in DOMAIN before \ {k} : after[k2] = before[k2]]_vars

\* o.AppendObject("a", v) succeeded on an object that held one node under "a"
\* and under "b": o holds v alone, and the node it held has the key "b"
C10_OtherMemberLost ==
  /\ last.op = "AppendObject" /\ last.res = "ok" /\ last.key = <<(<<"a">>)>>
  /\ DOMAIN heap[last.n].next = {<<"a">>}
  /\ heap[last.n].next[<<"a">>] = last.nodes[1]
  /\ \E c \in Nodes \ {last.nodes[1]} :
       /\ heap[c].key = <<(<<"b">>)>> /\ heap[c].prev = NIL
       /\ heap[c].data # NoData

\* C11: n.SetNode(other) returns an error if and only if other is n or an
\* ancestor of n; for every other node it succeeds, n has the content that
\* other had, and n keeps its parent, its key and its index
C11_SetNodeCycleError ==
  [][(last'.op = "SetNode")
     => LET n == last'.n
            other == last'.nodes[1]
            cyclic == other \in {n} \cup Ancestors(heap, n)
        IN /\ (last'.res = "err") <=> cyclic
           /\ ~cyclic =>
                /\ last'.res = "ok"
                /\ heap'[n].prev = heap[n].prev
                /\ heap'[n].key = heap[n].key
                /\ heap'[n].index = heap[n].index
                /\ Content(heap', n, used' + 1) = Content(heap, other, used + 1)]_vars

\* n.SetNode(c) has returned an error for a child c of n, on a heap whose
\* links agree: c is neither n nor an ancestor of n
C11_DescendantRejected ==
  /\ last.op = "SetNode" /\ last.res = "err"
  /\ \A p \in Nodes : LinksAgree(heap, p) /\ ReachesRoot(heap, p)
  /\ last.nodes[1] # last.n
  /\ last.nodes[1] \notin Ancestors(heap, last.n)
  /\ last.nodes[1] \in Children(heap, last.n)

\* Marshal gives the same outcome and the same bytes for a and b, when the
\* range over every object goes in the same direction
SameMarshal(h, a, b) ==
  \A rev \in {{}, DOMAIN h} :
    LET ma == Marshal(h, a, rev, Cardinality(DOMAIN h) + 1)
        mb == Marshal(h, b, rev, Cardinality(DOMAIN h) + 1)
    IN ma.res = mb.res /\ ma.out = mb.out

\* C12: the node that n.Clone() returns has no parent, no key and no index,
\* and Marshal of it gives what Marshal of n gives
C12_CloneDetached ==
  [][(last'.op = "Clone" /\ last'.res = "ok")
     => /\ heap'[last'.new].prev = NIL
        /\ heap'[last'.new].key = NoKey
        /\ heap'[last'.new].index = NoIndex
        /\ SameMarshal(heap', last'.new, last'.n)]_vars

\* Clone has copied a node that has a parent, and Marshal of the copy
\* succeeds and writes bytes
C12_ClonedChild ==
  /\ last.op = "Clone" /\ last.res = "ok"
  /\ heap[last.n].prev # NIL
  /\ heap[last.new].prev = NIL
  /\ Marshal(heap, last.new, {}, used + 1).res = "ok"
  /\ Marshal(heap, last.new, {}, used + 1).out # <<>>

\* n comes from Unmarshal: it has the data, and borders in it
Parsed(h, n) == h[n].data # NoData /\ ready(h, n)

\* the container p holds in h2 what it held in h, but for its child n: the
\* elements of an array in their order, the members of an object by name
Without(h, h2, p, n) ==
  IF IsArray(h, p)
  THEN LET i == h[n].index
           s == Size(h, p)
       IN /\ Size(h2, p) = s - 1
          /\ \A j \in 0..(s - 1) :
               /\ j < i => Elem(h2, p, j) = Elem(h, p, j)
               /\ j > i => Elem(h2, p, j - 1) = Elem(h, p, j)
  ELSE h2[p].next = MapDel(h[p].next, h[n].key[1])

\* the child of p under k is as Unmarshal left it: parsed from the data of p,
\* inside the borders of p, not modified, with p for its parent and k for its
\* index or key
childAsParsed(h, p, k, c) ==
  /\ Parsed(h, c) /\ ~h[c].modified /\ h[c].prev = p
  /\ h[c].data = h[p].data
  /\ h[p].borders[1] < h[c].borders[1] /\ h[c].borders[2] < h[p].borders[2]
  /\ IF IsArray(h, p) THEN Itoa(h[c].index) = k ELSE h[c].key = <<k>>

\* the container p is as Unmarshal left it: parsed and not modified, and so
\* is every child it holds
AsParsed(h, p) ==
  /\ Parsed(h, p) /\ ~h[p].modified
  /\ \A k \in DOMAIN h[p].next : childAsParsed(h, p, k, h[p].next[k])

\* C13: after n.Delete() on a parsed child n of a parsed container p (p and
\* its children as Unmarshal left them), n has no parent, p holds its other
\* children and not n, Marshal of p writes the text of what p holds, and
\* Marshal of n returns the bytes it returned before; Delete on a node without
\* a parent returns no error and changes no node
C13_DeleteDetaches ==
  [][(last'.op = "Delete")
     => LET n == last'.n
            p == heap[n].prev
            fuel == Cardinality(DOMAIN heap) + 1
        IN /\ (/\ p # NIL /\ n \in Children(heap, p) /\ LinksAgree(heap, n)
               /\ AsParsed(heap, p))
              => /\ last'.res = "ok"
                 /\ heap'[n].prev = NIL
                 /\ n \notin Children(heap', p)
                 /\ Without(heap, heap', p, n)
                 /\ Marshal(heap', p, {}, fuel).res = "ok"
                 /\ TextOf(heap', p, Marshal(heap', p, {}, fuel).out)
                 /\ Marshal(heap', n, {}, fuel).res = "ok"
                 /\ Marshal(heap', n, {}, fuel).out = source(heap, n).out
                 /\ source(heap, n).out # <<>>
           /\ p = NIL => last'.res = "ok" /\ heap' = heap]_vars

\* Delete has taken the first element out of a parsed array of two: Marshal
\* of the array writes the second element alone
C13_FirstOfTwoDeleted ==
  /\ last.op = "Delete" /\ last.res = "ok" /\ ~failed
  /\ Parsed(heap, last.n) /\ heap[last.n].prev = NIL /\ heap[last.n].index = 0
  /\ \E p \in Arrays(heap) :
       /\ Parsed(heap, p) /\ heap[p].modified /\ Size(heap, p) = 1
       /\ Marshal(heap, p, {}, used + 1).out = <<"[", "2", "]">>
       /\ Marshal(heap, last.n, {}, used + 1).out = <<"1">>

\* no node has borders outside its data (the slice in source cannot fail)
SourcesInData(h) == \A m \in DOMAIN h : source(h, m).res = "ok"

\* C14: Marshal ends on every graph of nodes, cyclic ones included: it
\* returns bytes or an error (the recursion does not run until the stack is
\* exhausted)
C14_MarshalReturns ==
  [][(last'.op = "Marshal" /\ SourcesInData(heap)) => last'.res \in {"ok", "err"}]_vars

\* Marshal was called on a modified array that is an element of its own
\* element, and did not return
C14_MarshalOverflow ==
  /\ last.op = "Marshal" /\ last.res = "panic"
  /\ SourcesInData(heap)
  /\ heap[last.n].modified /\ IsArray(heap, last.n)
  /\ \E c \in Children(heap, last.n) :
       heap[c].modified /\ last.n \in Children(heap, c)

\* ------------------------------------------ Unmarshal, token by token
\* The loop of Unmarshal, one iteration for each step: the data grows by one
\* token, and the decoder state d (buffer, pending key, current node, depth
\* counter, heap) is the state of the loop once it has read the data so far.
\* heap and used hold d.h and d.used, steps counts the tokens against
\* MaxTokens (a run that begins deep has DeepTokens of them left), last holds
\* the rest of d and what the last iteration did.

\* the number of tokens given in one run, and in a run that begins deep
MaxTokens == 5
DeepTokens == 2

\* the tokens
Tokens ==
  {<<"[">>, <<"]">>, <<"{">>, <<"}">>, <<",">>, <<":">>, <<"\"", "a", "\"">>}

\* the slice that the nodes of these runs hold in their data field: the
\* bytes are those of the buffer, and no step here reads them through a node
RunData == <<Doc(<<>>, <<>>)>>

\* the decoder before the first byte
StartDecoder ==
  [b |-> newBuffer(<<>>), doc |-> RunData, key |-> NoKey, current |-> NIL,
   nesting |-> 0, h |-> <<>>, used |-> 0]

\* the array that the k-th of k bytes "[" opens, the bytes starting at the
\* offset at, below the node up (NIL: it is the root)
OpenArray(i, k, at, up) ==
  NodeRec(IF i = 1 THEN up ELSE i - 1 + Max0(up),
          IF i < k THEN (<<"0">> :> (i + 1 + Max0(up))) ELSE EmptyMap,
          NoKey, RunData, NoValue, Array,
          IF i = 1 /\ up = NIL THEN NoIndex ELSE 0,
          <<at + i - 1, 0>>, FALSE)

\* the decoder after the k bytes "[[[..[" (k > 0)
DeepDecoder(k) ==
  [b |-> [data |-> [i \in 1..k |-> "["], length |-> k, index |-> k,
          last |-> IF k = 1 THEN "GO" ELSE "AR", state |-> "AR", class |-> "C_LSQRB"],
   doc |-> RunData, key |-> NoKey, current |-> k, nesting |-> k,
   h |-> [i \in 1..k |-> OpenArray(i, k, 0, NIL)], used |-> k]

\* the decoder after the bytes "[]," and k bytes "[" (k > 0): the root is
\* the node 1, closed, and the arrays opened after the comma are below it
DeepDecoderAfterRoot(k) ==
  [b |-> [data |-> <<"[", "]", ",">> \o [i \in 1..k |-> "["], length |-> k + 3,
          index |-> k + 3, last |-> IF k = 1 THEN "VA" ELSE "AR", state |-> "AR",
          class |-> "C_LSQRB"],
   doc |-> RunData, key |-> NoKey, current |-> k + 1, nesting |-> k + 1,
   h |-> [i \in 1..(k + 1) |->
            IF i = 1
            THEN NodeRec(NIL, (<<"0">> :> 2), NoKey, RunData, NoValue, Array, NoIndex,
                         <<0, 2>>, FALSE)
            ELSE OpenArray(i - 1, k, 3, 1)],
   used |-> k + 1]

\* the buffer once the token tok follows the data it has read
moreData(b, tok) == [b EXCEPT !.data = @ \o tok, !.length = @ + Len(tok)]

\* the token tok opens a level: an object, an array, or a string that is a
\* value and no key (the cases of Unmarshal that call checkNestingDepth)
opensLevel(d, tok) ==
  LET got == getState(first(moreData(d.b, tok)).b)
  IN /\ got.class # "__"
     /\ \/ got.state \in {"co", "bo"}
        \/ /\ got.state = "ST"
           /\ ~(d.current # NIL /\ IsObject(d.h, d.current) /\ d.key = NoKey)

\* one iteration of the loop on the token tok: first, getState and the
\* switch, then step
afterToken(t) == [t EXCEPT !.d.b = step(t.d.b).b]
readToken(d, tok) ==
  afterToken(decodeToken([d EXCEPT !.b = first(moreData(d.b, tok)).b], <<>>))

\* the decoder after the bytes "[],"
DecoderAfterRoot ==
  readToken(readToken(readToken(StartDecoder, <<"[">>).d, <<"]">>).d, <<",">>).d

\* the depths the runs begin at
Depths == {maxNestingDepth - 2, maxNestingDepth - 1}

\* the decoder states the runs begin in
Decoders ==
  {StartDecoder, DecoderAfterRoot}
    \cup {DeepDecoder(k) : k \in Depths} \cup {DeepDecoderAfterRoot(k) : k \in Depths}

\* the containers that are open: the levels of nesting the decoder is in
\* between two tokens (a string is closed by the token that opens it)
openLevels(h) == Cardinality({n \in DOMAIN h : isContainer(h, n) /\ ~ready(h, n)})

\* the decoder state of a state of the run
decoderOf(l, h, u) ==
  [b |-> l.d.b, doc |-> RunData, key |-> l.d.key, current |-> l.d.current,
   nesting |-> l.d.nesting, h |-> h, used |-> u]

restOf(d) == [b |-> d.b, key |-> d.key, current |-> d.current, nesting |-> d.nesting]

TokenInit ==
  \E d \in Decoders :
     /\ heap = d.h
     /\ used = d.used
     /\ steps = IF d.nesting > MaxTokens THEN MaxTokens - DeepTokens ELSE 0
     /\ failed = FALSE
     /\ last = [op |-> "start", res |-> "ok", tok |-> <<>>, opens |-> FALSE, open |-> 0,
                d |-> restOf(d)]

tokenRead(d, tok, t) ==
  /\ heap' = t.d.h
  /\ used' = t.d.used
  /\ steps' = steps + 1
  /\ failed' = (t.res # "ok")
  /\ last' = [op |-> "token", res |-> t.res, tok |-> tok, opens |-> opensLevel(d, tok),
              open |-> openLevels(d.h), d |-> restOf(t.d)]

ReadToken(tok) ==
  /\ steps < MaxTokens
  /\ last.res = "ok"
  /\ \E d \in {decoderOf(last, heap, used)} :
        \E t \in {readToken(d, tok)} : tokenRead(d, tok, t)

TokenNext == \E tok \in Tokens : ReadToken(tok)

TokenSpec == TokenInit /\ [][TokenNext]_vars

\* The deep decoder states are the states the loop is in after their bytes:
\* whenever the data read is k bytes "[", alone or after "[],", the decoder
\* is in the state written down for k.
DeepDecodersAreDecoded ==
  LET data == last.d.b.data
      k == Len(data)
      d == decoderOf(last, heap, used)
  IN /\ (k > 0 /\ last.res = "ok" /\ data = [i \in 1..k |-> "["]) => d = DeepDecoder(k)
     /\ (k > 3 /\ last.res = "ok"
           /\ data = <<"[", "]", ",">> \o [i \in 1..(k - 3) |-> "["])
          => d = DeepDecoderAfterRoot(k - 3)

\* C15: a token that opens a level (an object, an array, a string that is a
\* value) makes Unmarshal fail exactly when maxNestingDepth levels are open
\* already; below that many open levels such a token is never rejected.
C15_DepthCap ==
  [][(last'.op = "token" /\ last'.opens)
       => ((last'.res = "err") <=> (last'.open >= maxNestingDepth))]_vars

\* an array is rejected for its depth with one level fewer open: the level
\* of the root is still counted after the root was closed
C15_ClosedRootCounted ==
  /\ last.op = "token"
  /\ last.tok = <<"[">>
  /\ last.opens
  /\ last.res = "err"
  /\ last.open = maxNestingDepth - 1
  /\ last.d.nesting = maxNestingDepth
  /\ ready(heap, 1)

\* the unfinished containers that have no unfinished container among their
\* children: the innermost one, when the unfinished containers are nested
innermost(h) ==
  {n \in DOMAIN h :
     /\ isContainer(h, n) /\ ~ready(h, n)
     /\ \A k \in DOMAIN h[n].next :
          ~(isContainer(h, h[n].next[k]) /\ ~ready(h, h[n].next[k]))}

\* C16: Unmarshal goes on after a "]" or a "}" only when the token closes the
\* innermost unfinished container and that container is of the kind of the
\* token (an array for "]", an object for "}"), and after a "}" only when no
\* key is waiting for its value; in every other case the token is rejected.
C16_ClosingBracket ==
  [][(last'.op = "token" /\ last'.tok \in {<<"]">>, <<"}">>} /\ last'.res = "ok")
       => /\ last.d.current # NIL
          /\ innermost(heap) = {last.d.current}
          /\ heap[last.d.current].nodeType
               = (IF last'.tok = <<"]">> THEN Array ELSE Object)
          /\ ready(heap', last.d.current)
          /\ last'.tok = <<"}">> => last.d.key = NoKey]_vars

\* a "}" is rejected in an object whose key "a" has no value yet
C16_PendingKeyRejected ==
  /\ last.op = "token"
  /\ last.tok = <<"}">>
  /\ last.res = "err"
  /\ last.d.key = <<"a">>
  /\ last.d.current # NIL
  /\ IsObject(heap, last.d.current)
  /\ innermost(heap) = {last.d.current}

\* ------------------------------------------------------ JSONPath (path)
dollarSign == "$"
atSign == "@"
dot == "."
bracketOpen == "["
bracketClose == "]"
singleQuote == "'"
colon == ":"
BackSlashToken == "\\"

\* buffer.current and buffer.next
current(b) ==
  [c |-> IF b.index >= b.length THEN "" ELSE At(b, b.index), err |-> b.index >= b.length]

next(b) ==
  [b |-> [b EXCEPT !.index = @ + 1], c |-> current([b EXCEPT !.index = @ + 1]).c,
   err |-> current([b EXCEPT !.index = @ + 1]).err]

\* buffer.backslash: the byte at the index follows an odd number of backslashes
RECURSIVE backslashCount(_, _)
backslashCount(b, i) ==
  IF i >= b.length \/ At(b, i) # BackSlashToken THEN 0
  ELSE IF i = 0 THEN 1
  ELSE 1 + backslashCount(b, i - 1)

backslash(b) == IF b.index = 0 THEN FALSE ELSE backslashCount(b, b.index - 1) % 2 # 0

\* buffer.skip: move to the next byte bs that is not escaped; err (io.EOF)
\* when there is none
RECURSIVE skip(_, _)
skip(b, bs) ==
  IF b.index >= b.length THEN [b |-> b, err |-> TRUE]
  ELSE IF At(b, b.index) = bs /\ ~backslash(b) THEN [b |-> b, err |-> FALSE]
  ELSE skip([b EXCEPT !.index = @ + 1], bs)

\* buffer.skipAny: move to the next byte of endTokens; at the end of the data
\* the error is a new error, which is not io.EOF
RECURSIVE skipAny(_, _)
skipAny(b, endTokens) ==
  IF b.index >= b.length THEN [b |-> b, err |-> TRUE]
  ELSE IF At(b, b.index) \in endTokens THEN [b |-> b, err |-> FALSE]
  ELSE skipAny([b EXCEPT !.index = @ + 1], endTokens)

pathSegmentDelimiters == {dot, bracketOpen}

\* the bytes data[start:stop]
Bytes(data, start, stop) == SubSeq(data, start + 1, stop)

\* the outcome of a step of parsePath
Parsed2(b, result, err) == [b |-> b, result |-> result, err |-> err]

\* processDot, after next: n is the outcome of buf.next() and s the outcome
\* of skipAny, whose error is never io.EOF
processDotName(start, result, s) ==
  IF s.err THEN Parsed2([s.b EXCEPT !.index = @ - 1], <<>>, TRUE)
  ELSE Parsed2([s.b EXCEPT !.index = @ - 1],
               IF start + 1 < s.b.index
               THEN Append(result, Bytes(s.b.data, start + 1, s.b.index))
               ELSE result,
               FALSE)

processDotNext(start, result, n) ==
  IF n.err THEN Parsed2(n.b, result, FALSE)
  ELSE IF n.c = dot
       THEN Parsed2([n.b EXCEPT !.index = @ - 1], Append(result, <<dot, dot>>), FALSE)
  ELSE processDotName(start, result, skipAny(n.b, pathSegmentDelimiters))

processDot(b, result) == processDotNext(b.index, result, next(b))

\* processWithoutSingleQuote: the bytes up to the next "]"
processWithoutSingleQuoteTo(result, start, s) ==
  IF s.err THEN Parsed2(s.b, <<>>, TRUE)
  ELSE Parsed2(s.b, Append(result, Bytes(s.b.data, start, s.b.index)), FALSE)

processWithoutSingleQuote(b, result, start) ==
  processWithoutSingleQuoteTo(result, start, skip(b, bracketClose))

\* buf.string(singleQuote, true): a single-quoted string is one name; the
\* buffer moves from the opening quote to the closing one
quoted(b) == skip([b EXCEPT !.index = @ + 1], singleQuote)

\* processSingleQuote
processSingleQuoteEnd(result, start, s, n) ==
  IF s.err \/ n.err \/ n.c # bracketClose THEN Parsed2(n.b, <<>>, TRUE)
  ELSE Parsed2(n.b, Append(result, Bytes(s.b.data, start, s.b.index)), FALSE)

processSingleQuote(b, result, start) ==
  processSingleQuoteEnd(result, start + 1, quoted(b), next(quoted(b).b))

\* processBracketOpen
processBracketOpenNext(result, n) ==
  IF n.err THEN Parsed2(n.b, <<>>, TRUE)
  ELSE IF n.c = singleQuote THEN processSingleQuote(n.b, result, n.b.index)
  ELSE processWithoutSingleQuote(n.b, result, n.b.index)

processBracketOpen(b, result) == processBracketOpenNext(result, next(b))

\* parsePath: the commands of a path, or err
RECURSIVE parseLoop(_, _)
parseStep(r) ==
  IF r.err THEN [err |-> TRUE, out |-> <<>>]
  ELSE IF step(r.b).err THEN [err |-> FALSE, out |-> r.result]
  ELSE parseLoop(step(r.b).b, r.result)

parseLoop(b, result) ==
  IF current(b).err THEN [err |-> FALSE, out |-> result]
  ELSE CASE current(b).c = dollarSign -> parseStep(Parsed2(b, Append(result, <<dollarSign>>), FALSE))
         [] current(b).c = atSign -> parseStep(Parsed2(b, Append(result, <<atSign>>), FALSE))
         [] current(b).c = dot -> parseStep(processDot(b, result))
         [] current(b).c = bracketOpen -> parseStep(processBracketOpen(b, result))
         [] OTHER -> [err |-> TRUE, out |-> <<>>]

parsePath(path) == parseLoop(newBuffer(path), <<>>)

\* strconv.ParseInt(s, 10, 64), for the values of the model: an optional sign
\* and a run of digits; err for everything else
unsigned(s) == IF s # <<>> /\ Head(s) \in {"+", "-"} THEN Tail(s) ELSE s

ParseInt(s) ==
  IF unsigned(s) = <<>> \/ \E i \in 1..Len(unsigned(s)) : ~IsDigit(unsigned(s)[i])
  THEN [err |-> TRUE, value |-> 0]
  ELSE [err |-> FALSE,
        value |-> IF Head(s) = "-" THEN 0 - digitsValue(unsigned(s), 0)
                  ELSE digitsValue(unsigned(s), 0)]

\* strings.Split(s, sep): piece holds the bytes since the last separator
RECURSIVE splitFrom(_, _, _)
splitFrom(s, sep, piece) ==
  IF s = <<>> THEN <<piece>>
  ELSE IF Head(s) = sep THEN <<piece>> \o splitFrom(Tail(s), sep, <<>>)
  ELSE splitFrom(Tail(s), sep, Append(piece, Head(s)))

Split(s, sep) == splitFrom(s, sep, <<>>)

\* strings.Contains for one byte, strings.HasPrefix, strings.HasSuffix
Contains(s, c) == \E i \in 1..Len(s) : s[i] = c
HasPrefix(s, p) == Len(s) >= Len(p) /\ SubSeq(s, 1, Len(p)) = p
HasSuffix(s, p) == Len(s) >= Len(p) /\ SubSeq(s, Len(s) - Len(p) + 1, Len(s)) = p

\* getSortedChildren: the children of a container, those of an array in the
\* order of their indices, those of an object in a fixed order of the keys
getSortedChildren(h, n) ==
  IF IsArray(h, n) /\ \A i \in 0..(Size(h, n) - 1) : Itoa(i) \in DOMAIN h[n].next
  THEN [i \in 1..Size(h, n) |-> h[n].next[Itoa(i - 1)]]
  ELSE [i \in 1..Size(h, n) |-> h[n].next[SetToSeq(DOMAIN h[n].next)[i]]]

\* the containers of a sequence of nodes
containersOf(h, nodes) == SelectSeq(nodes, LAMBDA e : isContainer(h, e))

\* recursiveChildren: the children that are containers, then the
\* recursiveChildren of each of them
RECURSIVE recursiveChildren(_, _)
RECURSIVE recursiveEach(_, _, _)
recursiveEach(h, result, i) ==
  IF i > Len(result) THEN <<>>
  ELSE recursiveChildren(h, result[i]) \o recursiveEach(h, result, i + 1)

\* the children alone, without their own recursiveChildren
childrenOnly(h, result) == result

recursiveResult(h, result) == result \o recursiveEach(h, result, 1)

recursiveChildren(h, node) ==
  recursiveResult(h, IF isContainer(h, node)
                     THEN containersOf(h, getSortedChildren(h, node))
                     ELSE <<>>)

\* processRecursiveDescent
RECURSIVE processRecursiveDescent(_, _)
processRecursiveDescent(h, nodes) ==
  IF nodes = <<>> THEN <<>>
  ELSE recursiveChildren(h, Head(nodes)) \o processRecursiveDescent(h, Tail(nodes))

\* processWildcard
RECURSIVE processWildcard(_, _)
processWildcard(h, nodes) ==
  IF nodes = <<>> THEN <<>>
  ELSE getSortedChildren(h, Head(nodes)) \o processWildcard(h, Tail(nodes))

\* parseSliceParams
sliceParams(keys, from, to, stp) ==
  IF Len(keys) > 3 THEN [err |-> TRUE, from |-> 0, to |-> 0, step |-> 0]
  ELSE IF from.err THEN [err |-> TRUE, from |-> 0, to |-> 0, step |-> 0]
  ELSE IF Len(keys) > 1 /\ to.err THEN [err |-> TRUE, from |-> 0, to |-> 0, step |-> 0]
  ELSE IF Len(keys) = 3 /\ stp.err THEN [err |-> TRUE, from |-> 0, to |-> 0, step |-> 0]
  ELSE [err |-> FALSE, from |-> from.value,
        to |-> IF Len(keys) > 1 THEN to.value ELSE 0,
        step |-> IF Len(keys) = 3 THEN stp.value ELSE 1]

keyOf(keys, i) == IF i <= Len(keys) THEN keys[i] ELSE <<>>

parseSliceKeys(keys) ==
  sliceParams(keys, ParseInt(keyOf(keys, 1)), ParseInt(keyOf(keys, 2)),
              ParseInt(keyOf(keys, 3)))

parseSliceParams(cmd) == parseSliceKeys(Split(cmd, colon))

\* selectArrayElement
RECURSIVE selectLoop(_, _, _, _, _)
selectLoop(h, node, i, to, stp) ==
  IF i >= to THEN <<>>
  ELSE (IF Itoa(i) \in DOMAIN h[node].next THEN <<h[node].next[Itoa(i)]>> ELSE <<>>)
         \o selectLoop(h, node, i + stp, to, stp)

clamp(v, length) == Max0(Min(v, length))

selectClamped(h, node, from, to, stp) ==
  IF stp <= 0 \/ from >= to THEN <<>> ELSE selectLoop(h, node, from, to, stp)

selectNormal(h, node, length, from, to, stp) ==
  selectClamped(h, node,
                clamp(IF from < 0 THEN from + length ELSE from, length),
                clamp(IF to < 0 THEN to + length ELSE to, length), stp)

selectArrayElement(h, node, from, to, stp) ==
  selectNormal(h, node, Size(h, node), from, IF to = 0 THEN Size(h, node) ELSE to, stp)

\* processSlice
RECURSIVE sliceEach(_, _, _)
sliceEach(h, p, nodes) ==
  IF nodes = <<>> THEN <<>>
  ELSE (IF IsArray(h, Head(nodes))
        THEN selectArrayElement(h, Head(nodes), p.from, p.to, p.step) ELSE <<>>)
         \o sliceEach(h, p, Tail(nodes))

\* the outcome of a command: the nodes, and the function that processed it
Processed(res, out, by) == [res |-> res, out |-> out, by |-> by]

sliced(h, p, nodes) ==
  IF p.err THEN Processed("err", <<>>, "processSlice")
  ELSE Processed("ok", sliceEach(h, p, nodes), "processSlice")

processSlice(h, cmd, nodes) == sliced(h, parseSliceParams(cmd), nodes)

\* ------------------------------------- the filter expressions (stack.go)
\* Stack: the items, the top of the stack last
Push(items, item) == Append(items, item)
IsEmpty(items) == Len(items) = 0
Peek(items) == IF IsEmpty(items) THEN <<>> ELSE items[Len(items)]
Pop(items) == IF IsEmpty(items) THEN items ELSE SubSeq(items, 1, Len(items) - 1)

parenOpen == "("
parenClose == ")"

Operators ==
  { <<"=", "=">>, <<"!", "=">>, <<">">>, <<">", "=">>, <<"<">>, <<"<", "=">>,
    <<"&", "&">>, <<"|", "|">>, <<"+">>, <<"-">>, <<"*">>, <<"/">>, <<"%">> }

isOperator(token) == token \in Operators

isOperand(token) ==
  ~(isOperator(token) \/ token = <<parenOpen>> \/ token = <<parenClose>>)

\* every operator as strong as the weakest
flatPrecedence(operator) == IF operator \in Operators THEN 1 ELSE 0

precedence(operator) ==
  CASE operator = <<"|", "|">> -> 1
    [] operator = <<"&", "&">> -> 2
    [] operator \in {<<"=", "=">>, <<"!", "=">>} -> 3
    [] operator \in {<<">">>, <<">", "=">>, <<"<">>, <<"<", "=">>} -> 4
    [] operator \in {<<"+">>, <<"-">>} -> 5
    [] operator \in {<<"*">>, <<"/">>, <<"%">>} -> 6
    [] OTHER -> 0

\* the state of convertToRPN: the output, the stack, and whether it returned
\* an error
Rpn(err, output, items) == [err |-> err, output |-> output, stack |-> items]

\* for !stack.IsEmpty() && stack.Peek() != "(": output the top of the stack
RECURSIVE popToParen(_, _)
popToParen(output, items) ==
  IF ~IsEmpty(items) /\ Peek(items) # <<parenOpen>>
  THEN popToParen(Append(output, Peek(items)), Pop(items))
  ELSE Rpn(FALSE, output, items)

\* a ")" whose "(" is taken for granted
closeAnyParen(p) == Rpn(FALSE, p.output, Pop(p.stack))

\* the token ")": an error when no "(" is on the stack, else the "(" is popped
closeParen(p) ==
  IF IsEmpty(p.stack) THEN Rpn(TRUE, <<>>, p.stack)
  ELSE Rpn(FALSE, p.output, Pop(p.stack))

\* for !stack.IsEmpty() && precedence(stack.Peek()) >= currentPrecedence
RECURSIVE popStronger(_, _, _)
popStronger(output, items, currentPrecedence) ==
  IF ~IsEmpty(items) /\ precedence(Peek(items)) >= currentPrecedence
  THEN popStronger(Append(output, Peek(items)), Pop(items), currentPrecedence)
  ELSE Rpn(FALSE, output, items)

\* the loop after the tokens: an error when a "(" is left on the stack
RECURSIVE popRest(_, _)
popRest(output, items) ==
  IF IsEmpty(items) THEN Rpn(FALSE, output, items)
  ELSE IF Peek(items) = <<parenOpen>> THEN Rpn(TRUE, <<>>, items)
  ELSE popRest(Append(output, Peek(items)), Pop(items))

\* convertToRPN, from the i-th token on
RECURSIVE rpnLoop(_, _, _, _)
rpnClosed(tokens, i, p) ==
  IF p.err THEN p ELSE rpnLoop(tokens, i + 1, p.output, p.stack)

rpnPushed(tokens, i, p, token) == rpnLoop(tokens, i + 1, p.output, Push(p.stack, token))

rpnLoop(tokens, i, output, items) ==
  IF i > Len(tokens) THEN popRest(output, items)
  ELSE IF isOperand(tokens[i]) THEN rpnLoop(tokens, i + 1, Append(output, tokens[i]), items)
  ELSE IF tokens[i] = <<parenOpen>> THEN rpnLoop(tokens, i + 1, output, Push(items, tokens[i]))
  ELSE IF tokens[i] = <<parenClose>>
       THEN rpnClosed(tokens, i, closeParen(popToParen(output, items)))
  ELSE rpnPushed(tokens, i, popStronger(output, items, precedence(tokens[i])), tokens[i])

convertToRPN(tokens) == rpnLoop(tokens, 1, <<>>, <<>>)

\* ------------------------------------------- the comparisons (eval.go)
\* the bytes of the strings that are compared, in the order of their codes
ByteOrder ==
  << " ", "\"", "'", "0", "1", "2", "3", "4", "5", "6", "7", "8", "9", "J", "a", "b",
     "c", "n" >>
ByteCode(c) == CHOOSE i \in DOMAIN ByteOrder : ByteOrder[i] = c

\* l < r for two Go strings
RECURSIVE StringLess(_, _)
StringLess(l, r) ==
  IF r = <<>> THEN FALSE
  ELSE IF l = <<>> THEN TRUE
  ELSE IF Head(l) # Head(r) THEN ByteCode(Head(l)) < ByteCode(Head(r))
  ELSE StringLess(Tail(l), Tail(r))

\* the outcome of a comparison: (bool, error)
Compared(res, err) == [res |-> res, err |-> err]

\* two scalars read by their typed getters
eqValues(l, r) ==
  IF l.res # "ok" \/ r.res # "ok" THEN Compared(FALSE, TRUE)
  ELSE Compared(l.value = r.value, FALSE)

\* Eq.  The case Array compares the elements only of arrays of one length
\* and returns at the first pair that differs; the case Object reads both
\* maps from n; whatever leaves the switch returns true
RECURSIVE Eq(_, _, _)
RECURSIVE eqArray(_, _, _, _)
RECURSIVE eqObject(_, _, _, _)
eqElement(h, l, r, i, e) ==
  IF e.err \/ ~e.res THEN Compared(FALSE, e.err) ELSE eqArray(h, l, r, i + 1)

eqArray(h, l, r, i) ==
  IF i > Len(l) THEN Compared(TRUE, FALSE) ELSE eqElement(h, l, r, i, Eq(h, l[i], r[i]))

eqMember(h, l, r, keys, e) ==
  IF e.err \/ ~e.res THEN Compared(FALSE, e.err) ELSE eqObject(h, l, r, Tail(keys))

eqObject(h, l, r, keys) ==
  IF keys = <<>> THEN Compared(TRUE, FALSE)
  ELSE IF Head(keys) \notin DOMAIN r THEN Compared(FALSE, FALSE)
  ELSE eqMember(h, l, r, keys, Eq(h, l[Head(keys)], r[Head(keys)]))

eqArrays(h, l, r) ==
  IF l.err \/ r.err THEN Compared(FALSE, TRUE)
  ELSE IF Len(l.value) = Len(r.value) THEN eqArray(h, l.value, r.value, 1)
  ELSE Compared(TRUE, FALSE)

eqObjects(h, l, r) ==
  IF l.err \/ r.err THEN Compared(FALSE, TRUE)
  ELSE IF MapLen(l.value) = MapLen(r.value)
       THEN eqObject(h, l.value, r.value, SetToSeq(DOMAIN l.value))
  ELSE Compared(TRUE, FALSE)

Eq(h, n, node) ==
  IF n = NIL \/ node = NIL THEN Compared(FALSE, TRUE)
  ELSE IF h[n].nodeType # h[node].nodeType THEN Compared(TRUE, FALSE)
  ELSE CASE h[n].nodeType = Boolean ->
              eqValues(GetTyped(h, n, "bool"), GetTyped(h, node, "bool"))
         [] h[n].nodeType = Number ->
              eqValues(GetTyped(h, n, "num"), GetTyped(h, node, "num"))
         [] h[n].nodeType = String ->
              eqValues(GetTyped(h, n, "str"), GetTyped(h, node, "str"))
         [] h[n].nodeType = Null -> Compared(TRUE, FALSE)
         [] h[n].nodeType = Array -> eqArrays(h, GetArray(h, n), GetArray(h, node))
         [] h[n].nodeType = Object -> eqObjects(h, GetObject(h, n), GetObject(h, n))
         [] OTHER -> Compared(TRUE, FALSE)

negated(e) == IF e.err THEN Compared(FALSE, TRUE) ELSE Compared(~e.res, FALSE)

Neq(h, n, node) == negated(Eq(h, n, node))

\* Gt, Gte, Lt, Lte: getFloats or getStrings, and the comparison op of the two
\* values
ordered(op, l, r) ==
  CASE op = "Gt" -> l > r
    [] op = "Gte" -> l >= r
    [] op = "Lt" -> l < r
    [] OTHER -> l <= r

orderedStrings(op, l, r) ==
  CASE op = "Gt" -> StringLess(r, l)
    [] op = "Gte" -> ~StringLess(l, r)
    [] op = "Lt" -> StringLess(l, r)
    [] OTHER -> ~StringLess(r, l)

orderFloats(op, l, r) ==
  IF l.res # "ok" \/ r.res # "ok" THEN Compared(FALSE, TRUE)
  ELSE Compared(ordered(op, l.value[2], r.value[2]), FALSE)

orderStrings(op, l, r) ==
  IF l.res # "ok" \/ r.res # "ok" THEN Compared(FALSE, TRUE)
  ELSE Compared(orderedStrings(op, l.value[2], r.value[2]), FALSE)

Order(op, h, n, node) ==
  IF n = NIL \/ node = NIL THEN Compared(FALSE, TRUE)
  ELSE IF h[n].nodeType # h[node].nodeType THEN Compared(FALSE, FALSE)
  ELSE CASE h[n].nodeType = Number ->
              orderFloats(op, GetTyped(h, n, "num"), GetTyped(h, node, "num"))
         [] h[n].nodeType = String ->
              orderStrings(op, GetTyped(h, n, "str"), GetTyped(h, node, "str"))
         [] OTHER -> Compared(FALSE, TRUE)

Gt(h, n, node) == Order("Gt", h, n, node)
Gte(h, n, node) == Order("Gte", h, n, node)
Lt(h, n, node) == Order("Lt", h, n, node)
Lte(h, n, node) == Order("Lte", h, n, node)

\* ----------------------------------------------- the filter evaluator
\* unicode.IsLetter and unicode.IsDigit on the bytes of the model
Letters ==
  { "a", "b", "c", "d", "e", "f", "g", "h", "i", "j", "k", "l", "m", "n", "o", "p",
    "q", "r", "s", "t", "u", "v", "w", "x", "y", "z", "J" }
isAlphaNumeric(char) == char \in Letters \/ IsDigit(char) \/ char = "_"

\* the token of the builder, appended to the tokens when it is not empty
flushed(tokens, token) == IF Len(token) > 0 THEN Append(tokens, token) ELSE tokens

\* the loop after "@.": it starts at the dot (the byte i, counted from 0)
RECURSIVE alphaNumericRun(_, _, _)
alphaNumericRun(expr, i, token) ==
  IF i < Len(expr) /\ isAlphaNumeric(expr[i + 1])
  THEN alphaNumericRun(expr, i + 1, Append(token, expr[i + 1]))
  ELSE [i |-> i, token |-> token]

\* tokenizeExpression, from the byte i (counted from 0) on
RECURSIVE tokenizeLoop(_, _, _, _, _)
tokenizeAt(expr, tokens, r) == tokenizeLoop(expr, r.i, tokens, r.token, FALSE)

tokenizeLoop(expr, i, tokens, token, inQuotes) ==
  IF i >= Len(expr) THEN flushed(tokens, token)
  ELSE IF expr[i + 1] = singleQuote
       THEN (IF inQuotes
             THEN tokenizeLoop(expr, i + 1, Append(tokens, Append(token, expr[i + 1])),
                               <<>>, FALSE)
             ELSE tokenizeLoop(expr, i + 1, flushed(tokens, token), <<expr[i + 1]>>, TRUE))
  ELSE IF inQuotes THEN tokenizeLoop(expr, i + 1, tokens, Append(token, expr[i + 1]), TRUE)
  ELSE IF expr[i + 1] \in {parenOpen, parenClose, ",", "+", "-", "*", "/"}
       THEN tokenizeLoop(expr, i + 1, Append(flushed(tokens, token), <<expr[i + 1]>>),
                         <<>>, FALSE)
  ELSE IF expr[i + 1] = " " THEN tokenizeLoop(expr, i + 1, flushed(tokens, token), <<>>, FALSE)
  ELSE IF expr[i + 1] = atSign
       THEN (IF i + 1 < Len(expr) /\ expr[i + 2] = dot
             THEN tokenizeAt(expr, flushed(tokens, token),
                             alphaNumericRun(expr, i + 1, <<atSign>>))
             ELSE tokenizeLoop(expr, i + 1, flushed(tokens, token), <<atSign>>, FALSE))
  ELSE tokenizeLoop(expr, i + 1, tokens, Append(token, expr[i + 1]), FALSE)

tokenizeExpression(expr) == tokenizeLoop(expr, 0, <<>>, <<>>, FALSE)

TrimPrefix(s, prefix) ==
  IF HasPrefix(s, prefix) THEN SubSeq(s, Len(prefix) + 1, Len(s)) ELSE s
TrimSuffix(s, suffix) ==
  IF HasSuffix(s, suffix) THEN SubSeq(s, 1, Len(s) - Len(suffix)) ELSE s

\* parseFilterExpression: [err, out]
parseFilterExpression(cmd) ==
  [err |-> convertToRPN(tokenizeExpression(
             TrimSuffix(TrimPrefix(cmd, <<"?", "(">>), <<")">>))).err,
   out |-> convertToRPN(tokenizeExpression(
             TrimSuffix(TrimPrefix(cmd, <<"?", "(">>), <<")">>))).output]

\* boolean: the truth of a node
truth(v, zero) ==
  IF v.res # "ok" THEN Compared(FALSE, FALSE) ELSE Compared(v.value[2] # zero, FALSE)

boolean(h, node) ==
  CASE h[node].nodeType = Boolean ->
         IF GetTyped(h, node, "bool").res # "ok" THEN Compared(FALSE, TRUE)
         ELSE Compared(GetTyped(h, node, "bool").value[2], FALSE)
    [] h[node].nodeType = Number -> truth(GetTyped(h, node, "num"), 0)
    [] h[node].nodeType = String -> truth(GetTyped(h, node, "str"), <<>>)
    [] h[node].nodeType = Null -> Compared(FALSE, FALSE)
    [] OTHER -> Compared(Size(h, node) # 0, FALSE)

andOperation(h, l, rhs) ==
  IF l.err THEN l ELSE IF l.res THEN boolean(h, rhs) ELSE Compared(FALSE, FALSE)

orOperation(h, l, rhs) ==
  IF l.err THEN l ELSE IF ~l.res THEN boolean(h, rhs) ELSE Compared(TRUE, FALSE)

\* the map operations
operations ==
  { <<"=", "=">>, <<"!", "=">>, <<">">>, <<">", "=">>, <<"<">>, <<"<", "=">>,
    <<"&", "&">>, <<"|", "|">> }

isOperation(expr) == expr \in operations

operation(h, expr, lhs, rhs) ==
  CASE expr = <<"=", "=">> -> Eq(h, lhs, rhs)
    [] expr = <<"!", "=">> -> Neq(h, lhs, rhs)
    [] expr = <<">">> -> Gt(h, lhs, rhs)
    [] expr = <<">", "=">> -> Gte(h, lhs, rhs)
    [] expr = <<"<">> -> Lt(h, lhs, rhs)
    [] expr = <<"<", "=">> -> Lte(h, lhs, rhs)
    [] expr = <<"&", "&">> -> andOperation(h, boolean(h, lhs), rhs)
    [] OTHER -> orOperation(h, boolean(h, lhs), rhs)

\* the outcome of eval: res is "ok" or "err" ("given" when the path of an
\* operand holds a command that is not evaluated); node is NIL for a nil
\* result; the heap holds the structs that eval allocated
Evaled(res, node, h, u0) == [res |-> res, node |-> node, h |-> h, used |-> u0]

\* applyOperation: the result of the operation in a new BoolNode
applied(h, u0, r) ==
  IF r.err THEN Evaled("err", NIL, h, u0)
  ELSE Evaled("ok", u0 + 1, BoolNode(h, u0 + 1, <<>>, r.res), u0 + 1)

applyOperation(h, u0, expr, op1, op2) == applied(h, u0, operation(h, expr, op1, op2))

\* the bytes of a literal operand: without its double quotes when it has them
literalBytes(bstr) ==
  IF Len(bstr) > 1 /\ bstr[1] = "\"" /\ bstr[Len(bstr)] = "\""
  THEN SubSeq(bstr, 2, Len(bstr) - 1) ELSE bstr

\* applyPath: the loop over the commands
RECURSIVE processCommand(_, _, _)
RECURSIVE applyLoop(_, _, _, _, _)
appliedCommand(h, node, cmds, i, r) ==
  IF r.res # "ok" THEN r ELSE applyLoop(h, node, cmds, i + 1, r)

applyLoop(h, node, cmds, i, r) ==
  IF i > Len(cmds) THEN r
  ELSE IF i = 1 /\ (cmds[i] = <<dollarSign>> \/ cmds[i] = <<atSign>>)
       THEN applyLoop(h, node, cmds, i + 1, [r EXCEPT !.out = Append(r.out, node)])
  ELSE appliedCommand(h, node, cmds, i, processCommand(h, cmds[i], r.out))

applyPath(h, node, cmds) == applyLoop(h, node, cmds, 1, [res |-> "ok", out |-> <<>>, by |-> "applyPath"])

\* eval, from the i-th expression of rpn on; items is the stack of nodes
RECURSIVE evalLoop(_, _, _, _, _, _)
\* eval when an operand that does not name one node is left out and the
\* evaluation goes on
evalFoundOrSkipped(h, u0, node, rpn, i, items, slice) ==
  IF slice.res # "ok" THEN Evaled(slice.res, NIL, h, u0)
  ELSE IF Len(slice.out) = 1 THEN evalLoop(h, u0, node, rpn, i + 1, Append(items, slice.out[1]))
  ELSE evalLoop(h, u0, node, rpn, i + 1, items)

evalApplied(node, rpn, i, items, r) ==
  IF r.res # "ok" THEN r
  ELSE evalLoop(r.h, r.used, node, rpn, i + 1, Append(items, r.node))

evalFound(h, u0, node, rpn, i, items, slice) ==
  IF slice.res # "ok" THEN Evaled(slice.res, NIL, h, u0)
  ELSE IF Len(slice.out) = 1 THEN evalLoop(h, u0, node, rpn, i + 1, Append(items, slice.out[1]))
  ELSE Evaled("ok", NIL, h, u0)

evalPath(h, u0, node, rpn, i, items, cmds) ==
  IF cmds.err THEN Evaled("err", NIL, h, u0)
  ELSE evalFound(h, u0, node, rpn, i, items, applyPath(h, node, cmds.out))

evalLiteral(h, u0, node, rpn, i, items, temp) ==
  IF temp.res # "ok" THEN Evaled(temp.res, NIL, h, u0)
  ELSE evalLoop(temp.h, temp.used, node, rpn, i + 1, Append(items, temp.root))

evalLoop(h, u0, node, rpn, i, items) ==
  IF i > Len(rpn)
  THEN (CASE Len(items) = 1 -> Evaled("ok", items[1], h, u0)
          [] Len(items) = 0 -> Evaled("ok", NIL, h, u0)
          [] OTHER -> Evaled("err", NIL, h, u0))
  ELSE IF isOperation(rpn[i])
       THEN (IF Len(items) < 2 THEN Evaled("err", NIL, h, u0)
             ELSE evalApplied(node, rpn, i, SubSeq(items, 1, Len(items) - 2),
                              applyOperation(h, u0, rpn[i], items[Len(items) - 1],
                                             items[Len(items)])))
  ELSE IF HasPrefix(rpn[i], <<atSign>>) \/ HasPrefix(rpn[i], <<dollarSign>>)
       THEN evalPath(h, u0, node, rpn, i, items, parsePath(rpn[i]))
  ELSE evalLiteral(h, u0, node, rpn, i, items,
                   Unmarshal(h, u0, Doc(literalBytes(rpn[i]), <<>>)))

eval(h, u0, node, rpn) == evalLoop(h, u0, node, rpn, 1, <<>>)

\* evaluateFilterExpression, over the children of node from the i-th on.
\* The structs that eval allocates are in no result and are dropped.
RECURSIVE evaluateFilterLoop(_, _, _, _, _)
evaluatedChild(h, u0, children, expr, i, val) ==
  IF val.res # "ok" THEN [res |-> val.res, out |-> <<>>]
  ELSE IF val.node # NIL /\ ~boolean(val.h, val.node).err /\ boolean(val.h, val.node).res
       THEN [res |-> evaluateFilterLoop(h, u0, children, expr, i + 1).res,
             out |-> <<children[i]>> \o evaluateFilterLoop(h, u0, children, expr, i + 1).out]
  ELSE evaluateFilterLoop(h, u0, children, expr, i + 1)

evaluateFilterLoop(h, u0, children, expr, i) ==
  IF i > Len(children) THEN [res |-> "ok", out |-> <<>>]
  ELSE evaluatedChild(h, u0, children, expr, i, eval(h, u0, children[i], expr))

evaluateFilterExpression(h, node, expr) ==
  evaluateFilterLoop(h, Cardinality(DOMAIN h), getSortedChildren(h, node), expr, 1)

\* processFilter
RECURSIVE filterEach(_, _, _)
filteredNode(h, expr, nodes, evaled) ==
  IF evaled.res # "ok" THEN evaled
  ELSE [res |-> filterEach(h, expr, Tail(nodes)).res,
        out |-> evaled.out \o filterEach(h, expr, Tail(nodes)).out]

filterEach(h, expr, nodes) ==
  IF nodes = <<>> THEN [res |-> "ok", out |-> <<>>]
  ELSE IF isContainer(h, Head(nodes))
       THEN filteredNode(h, expr, nodes, evaluateFilterExpression(h, Head(nodes), expr))
  ELSE filterEach(h, expr, Tail(nodes))

filtered(r) ==
  IF r.res # "ok" THEN Processed(r.res, <<>>, "processFilter")
  ELSE Processed("ok", r.out, "processFilter")

processFilter(h, cmd, nodes) ==
  IF parseFilterExpression(cmd).err THEN Processed("err", <<>>, "processFilter")
  ELSE filtered(filterEach(h, parseFilterExpression(cmd).out, nodes))

\* processCommand.  processKeyUnion is not evaluated: the outcome "given" says
\* that the command was given to it
processCommand(h, cmd, nodes) ==
  CASE cmd = <<dot, dot>> ->
         Processed("ok", processRecursiveDescent(h, nodes), "processRecursiveDescent")
    [] cmd # <<dot, dot>> /\ cmd = <<"*">> ->
         Processed("ok", processWildcard(h, nodes), "processWildcard")
    [] cmd # <<dot, dot>> /\ cmd # <<"*">> /\ Contains(cmd, colon) ->
         processSlice(h, cmd, nodes)
    [] cmd # <<dot, dot>> /\ cmd # <<"*">> /\ ~Contains(cmd, colon)
         /\ HasPrefix(cmd, <<"?", "(">>) /\ HasSuffix(cmd, <<")">>) ->
         processFilter(h, cmd, nodes)
    [] OTHER -> Processed("given", <<>>, "processKeyUnion")

\* Path: the loop over the commands
RECURSIVE runCommands(_, _, _, _, _)
ranCommand(h, top, cmds, i, r) ==
  IF r.res # "ok" THEN r ELSE runCommands(h, top, cmds, i + 1, r)

runCommands(h, top, cmds, i, r) ==
  IF i > Len(cmds) THEN r
  ELSE IF i = 1 /\ cmds[i] = <<dollarSign>>
       THEN runCommands(h, top, cmds, i + 1, Processed("ok", Append(r.out, top), r.by))
  ELSE ranCommand(h, top, cmds, i, processCommand(h, cmds[i], r.out))

\* the outcome of Path, with the heap after Unmarshal
Found(r, h, u0, top) ==
  [res |-> r.res, out |-> r.out, by |-> r.by, h |-> h, used |-> u0, root |-> top]

pathOf(c, u, h, u0) ==
  IF c.err THEN Found(Processed("err", <<>>, "parsePath"), h, u0, NIL)
  ELSE IF u.res # "ok" THEN Found(Processed(u.res, <<>>, "Unmarshal"), h, u0, NIL)
  ELSE Found(runCommands(u.h, u.root, c.out, 1, Processed("ok", <<>>, "Path")), u.h, u.used,
             u.root)

Path(h, u0, data, path) == pathOf(parsePath(path), Unmarshal(h, u0, data), h, u0)

\* Node.Path: the path of a node from the root
RECURSIVE nodePath(_, _)
nodePath(h, n) ==
  IF h[n].prev = NIL THEN <<dollarSign>>
  ELSE nodePath(h, h[n].prev)
         \o (IF h[n].key # NoKey
             THEN <<bracketOpen, singleQuote>> \o h[n].key[1] \o <<singleQuote, bracketClose>>
             ELSE <<bracketOpen>> \o Itoa(h[n].index) \o <<bracketClose>>)

\* Paths
Paths(h, nodes) == [i \in 1..Len(nodes) |-> nodePath(h, nodes[i])]

\* ------------------------------------------------------- the calls of Path
\* One call of Path in each run: heap and used hold the nodes of the parsed
\* document, last the call and its outcome.

\* the documents given to Path
PathDocs ==
  << Doc(<<"[", "]">>, <<>>),
     Doc(<<"[", "1", "]">>, <<>>),
     Doc(<<"[", "1", ",", "2", "]">>, <<>>),
     Doc(<<"[", "1", ",", "2", ",", "3", "]">>, <<>>),
     Doc(<<"[", "[", "1", "]", "]">>, <<>>),
     Doc(<<"[", "[", "]", ",", "{", "}", "]">>, <<>>),
     Doc(<<"{", "\"", "a", "\"", ":", "[", "1", "]", "}">>, <<>>),
     Doc(<<"[", "[", "[", "]", "]", "]">>, <<>>),
     Doc(<<"1">>, <<>>),
     Doc(<<"{", "\"", "a", "\"", ":", "{", "\"", "b", "\"", ":", "[", "]", "}", "}">>, <<>>) >>

\* the integers of the slices
MaxSlice == 4
SliceInts == (0 - MaxSlice)..MaxSlice

\* the slices with a missing component
ShortSlices ==
  {<<":", "2">>, <<"1", ":">>, <<":">>, <<":", ":", "2">>, <<"1", ":", ":">>,
   <<":", "2", ":">>, <<"0", ":", "2", ":">>, <<"1", ":", ":", "2">>, <<":", "2", ":", "2">>,
   <<":", ":">>, <<"1", ":", "2">>}

\* the other segments: filters, the wildcard, an index, a name
Segments ==
  {<<"?", "(", "@", ")">>, <<"?", "(", "@", "=", "=", "'", ":", "'", ")">>,
   <<"?", "(", ":", ")">>, <<"?", "(", "@", ">", "1", ")">>, <<"*">>, <<"0">>, <<"a">>,
   <<"?", "(", "@">>}

\* the path $[segment]
Bracketed(segment) == <<dollarSign, bracketOpen>> \o segment \o <<bracketClose>>

\* the segment from:to:step
SliceOf(from, to, stp) == Itoa(from) \o <<colon>> \o Itoa(to) \o <<colon>> \o Itoa(stp)

PathCall(op, doc, segment, args, r) ==
  [op |-> op, doc |-> doc, segment |-> segment, args |-> args, res |-> r.res,
   out |-> r.out, by |-> r.by, root |-> r.root]

PathInit ==
  /\ heap = <<>>
  /\ used = 0
  /\ steps = 0
  /\ failed = FALSE
  /\ last = [op |-> "start", doc |-> 0, segment |-> <<>>, args |-> <<>>, res |-> "ok",
             out |-> <<>>, by |-> "", root |-> NIL]

called(op, doc, segment, args, r) ==
  /\ heap' = r.h
  /\ used' = r.used
  /\ steps' = steps + 1
  /\ failed' = (r.res # "ok")
  /\ last' = PathCall(op, doc, segment, args, r)

\* Path(data, "$..")
DoPathDescent ==
  /\ steps = 0
  /\ \E doc \in DOMAIN PathDocs :
       \E r \in {Path(heap, used, PathDocs[doc], <<dollarSign, dot, dot>>)} :
          called("descent", doc, <<dot, dot>>, <<>>, r)

\* Path(data, "$[from:to:step]")
DoPathSlice ==
  /\ steps = 0
  /\ \E doc \in DOMAIN PathDocs, from \in SliceInts, to \in SliceInts, stp \in SliceInts :
       \E r \in {Path(heap, used, PathDocs[doc], Bracketed(SliceOf(from, to, stp)))} :
          called("slice", doc, SliceOf(from, to, stp), <<from, to, stp>>, r)

\* Path(data, "$[segment]"), the segment a slice with a missing component
DoPathShortSlice ==
  /\ steps = 0
  /\ \E doc \in DOMAIN PathDocs, segment \in ShortSlices :
       \E r \in {Path(heap, used, PathDocs[doc], Bracketed(segment))} :
          called("short", doc, segment, <<>>, r)

\* Path(data, "$[segment]"), the segment a filter, a wildcard, an index, a name
DoPathSegment ==
  /\ steps = 0
  /\ \E doc \in DOMAIN PathDocs, segment \in Segments :
       \E r \in {Path(heap, used, PathDocs[doc], Bracketed(segment))} :
          called("segment", doc, segment, <<>>, r)

\* the contents of a bracket segment given to parsePath: up to MaxContent
\* bytes, brackets among them
MaxContent == 4
ContentBytes == {bracketOpen, bracketClose, "a", "0"}
Contents == UNION {[1..n -> ContentBytes] : n \in 0..MaxContent}

\* parsePath("$[content]")
parsedAs(content, c) ==
  /\ UNCHANGED <<heap, used>>
  /\ steps' = steps + 1
  /\ failed' = c.err
  /\ last' = [op |-> "parse", doc |-> 0, segment |-> content, args |-> <<>>,
              res |-> IF c.err THEN "err" ELSE "ok", out |-> c.out, by |-> "parsePath",
              root |-> NIL]

DoParsePath ==
  /\ steps = 0
  /\ \E content \in Contents :
       \E c \in {parsePath(Bracketed(content))} : parsedAs(content, c)

PathNext ==
  DoPathDescent \/ DoPathSlice \/ DoPathShortSlice \/ DoPathSegment \/ DoParsePath

PathSpec == PathInit /\ [][PathNext]_vars

\* the nodes of the tree below n, n among them
RECURSIVE treeOf(_, _)
treeOf(h, n) == {n} \cup UNION {treeOf(h, c) : c \in Children(h, n)}

\* the number of times that the path of n is in the paths of the nodes
listed(h, nodes, n) ==
  Cardinality({i \in 1..Len(nodes) : Paths(h, nodes)[i] = nodePath(h, n)})

normalised(v, size) == Max0(Min(IF v < 0 THEN v + size ELSE v, size))

\* the children of the array n at the indices f, f + stp, f + 2 stp, ... that
\* are below t, in ascending order
everyNth(h, n, f, t, stp) ==
  [k \in 1..Cardinality({i \in f..(t - 1) : (i - f) % stp = 0}) |->
     h[n].next[Itoa(f + (k - 1) * stp)]]

\* the elements that the slice from:to:stp selects in the array n
selected(h, n, from, to, stp) ==
  IF stp <= 0 \/ normalised(from, Size(h, n)) >= normalised(to, Size(h, n)) THEN <<>>
  ELSE everyNth(h, n, normalised(from, Size(h, n)), normalised(to, Size(h, n)), stp)

\* C18: on an array, the slice from:to:step with explicit integers (0 and
\* negative values among them) returns the children at the indices f, f + step,
\* f + 2 step, ... below t, in ascending order, f and t being from and to after
\* adding the size to negative values and clamping to [0, size]; it returns
\* nothing when step <= 0 or f >= t.
C18_SliceSelects ==
  (last.op = "slice" /\ last.root # NIL /\ IsArray(heap, last.root))
    => /\ last.res = "ok"
       /\ last.out = selected(heap, last.root, last.args[1], last.args[2], last.args[3])

\* "$[1:0:1]" on [1,2,3] returns the elements 1 and 2: the explicit to 0 is
\* taken for the size of the array
C18_ExplicitZeroTo ==
  /\ last.op = "slice"
  /\ last.res = "ok"
  /\ last.args = <<1, 0, 1>>
  /\ IsArray(heap, last.root)
  /\ Size(heap, last.root) = 3
  /\ Paths(heap, last.out) = << <<"$", "[", "1", "]">>, <<"$", "[", "2", "]">> >>
  /\ selected(heap, last.root, 1, 0, 1) = <<>>

\* the component i of a slice, or the default when it is missing
component(keys, i, default) ==
  IF i > Len(keys) \/ keys[i] = <<>> THEN default ELSE ParseInt(keys[i]).value

\* the elements that the slice with the components keys selects in the array
\* n, a missing from being 0, a missing to the size, a missing step 1
selectedDefault(h, n, keys) ==
  selected(h, n, component(keys, 1, 0), component(keys, 2, Size(h, n)),
           component(keys, 3, 1))

\* C19: a slice with a missing component is accepted and evaluated with the
\* default of that component: from 0, to the size of the array, step 1.
C19_MissingComponentDefaults ==
  (last.op = "short" /\ last.root # NIL /\ IsArray(heap, last.root)
     /\ Len(Split(last.segment, colon)) <= 3)
    => /\ last.res = "ok"
       /\ last.out = selectedDefault(heap, last.root, Split(last.segment, colon))

\* "$[:2]" on [1,2,3] is an error of processSlice
C19_MissingFromRejected ==
  /\ last.op = "short"
  /\ last.segment = <<":", "2">>
  /\ last.res = "err"
  /\ last.by = "processSlice"
  /\ IsArray(heap, last.root)
  /\ Size(heap, last.root) = 3
  /\ Len(selectedDefault(heap, last.root, Split(last.segment, colon))) = 2

\* the segment is a filter: it begins with ?( and ends with )
isFilter(segment) == HasPrefix(segment, <<"?", "(">>) /\ HasSuffix(segment, <<")">>)

\* C20: processCommand gives every segment that begins with ?( and ends with )
\* to processFilter, whatever its body holds (a colon too), and gives to
\* processSlice only a segment that is no filter and holds a colon.
C20_FilterBeforeSlice ==
  (last.op \in {"segment", "short", "slice"} /\ last.by \notin {"parsePath", "Unmarshal"})
    => /\ isFilter(last.segment) => last.by = "processFilter"
       /\ last.by = "processSlice" => (~isFilter(last.segment) /\ Contains(last.segment, colon))

\* the filter ?(@==':') is given to processSlice, which rejects it
C20_FilterSliced ==
  /\ last.op = "segment"
  /\ last.segment = <<"?", "(", "@", "=", "=", "'", ":", "'", ")">>
  /\ isFilter(last.segment)
  /\ last.by = "processSlice"
  /\ last.res = "err"

\* the place in s of the "]" that matches a "[" read before the place i, depth
\* brackets being open at i; 0 when there is none
RECURSIVE matching(_, _, _)
matching(s, i, depth) ==
  IF i > Len(s) THEN 0
  ELSE IF s[i] = bracketClose
       THEN (IF depth = 1 THEN i ELSE matching(s, i + 1, depth - 1))
  ELSE IF s[i] = bracketOpen THEN matching(s, i + 1, depth + 1)
  ELSE matching(s, i + 1, depth)

\* the brackets inside the content are balanced: the "]" that ends the path
\* $[content] is the one that matches its first "["
balanced(content) ==
  matching(content \o <<bracketClose>>, 1, 1) = Len(content) + 1

\* C21: for a bracket segment whose content does not begin with a single
\* quote, parsePath emits the text between the "[" and the "]" that matches
\* it: brackets nested in the content stay inside the one segment.
C21_MatchingBracket ==
  (last.op = "parse" /\ balanced(last.segment))
    => /\ last.res = "ok"
       /\ last.out = <<(<<dollarSign>>), last.segment>>

\* the path $[a[0]] is rejected: the segment ends at the first "]"
C21_NestedIndexCut ==
  /\ last.op = "parse"
  /\ last.segment = <<"a", "[", "0", "]">>
  /\ balanced(last.segment)
  /\ last.res = "err"

\* ------------------------------------------------------------ FilterSpec
\* one call of a function of the filter evaluator in each run
MaxRpn == 4
RpnBytes == {<<"a">>, <<"b">>, <<parenOpen>>, <<parenClose>>, <<"+">>, <<"*">>}
\* every sequence of up to MaxRpn tokens
ShortTokens == UNION {[1..n -> RpnBytes] : n \in 0..MaxRpn}
\* a op b op c, bare and with either pair in parentheses
InfixTokens ==
  UNION { { <<(<<"a">>), o1, (<<"b">>), o2, (<<"c">>)>>,
            <<(<<parenOpen>>), (<<"a">>), o1, (<<"b">>), (<<parenClose>>), o2, (<<"c">>)>>,
            <<(<<"a">>), o1, (<<parenOpen>>), (<<"b">>), o2, (<<"c">>), (<<parenClose>>)>> }
          : o1 \in Operators, o2 \in Operators }
\* a op b op c op d
LongOperators == {<<"|", "|">>, <<"=", "=">>, <<"<">>, <<"-">>}
LongTokens ==
  { <<(<<"a">>), o1, (<<"b">>), o2, (<<"c">>), o3, (<<"d">>)>> :
      o1 \in LongOperators, o2 \in LongOperators, o3 \in LongOperators }
RpnInputs == ShortTokens \cup InfixTokens \cup LongTokens

\* the documents whose nodes are the operands of the comparisons
OperandDocs ==
  << <<"1">>, <<"2">>, <<"1", "2">>, <<"\"", "a", "\"">>, <<"\"", "b", "\"">>,
     <<"\"", "a", "b", "\"">>, <<"\"", "\"">>,
     <<"t", "r", "u", "e">>, <<"f", "a", "l", "s", "e">>, <<"n", "u", "l", "l">>,
     <<"[", "]">>, <<"[", "1", "]">>, <<"[", "2", "]">>, <<"[", "1", ",", "2", "]">>,
     <<"[", "[", "1", "]", "]">>, <<"[", "[", "2", "]", "]">>,
     <<"{", "}">>, <<"{", "\"", "a", "\"", ":", "1", "}">>,
     <<"{", "\"", "a", "\"", ":", "2", "}">>, <<"{", "\"", "b", "\"", ":", "1", "}">>,
     << "[", "{", "\"", "n", "\"", ":", "\"", "J", "\"", "}", ",",
        "{", "\"", "n", "\"", ":", "\"", "a", "\"", "}", "]" >> >>

\* Unmarshal of every document of docs, one after the other: the structs of
\* the i-th document are allocated after those of the documents before it
docNodes(doc) == Unmarshal(<<>>, 0, Doc(doc, <<>>)).used
RECURSIVE nodesBefore(_, _)
nodesBefore(docs, i) ==
  IF i = 1 THEN 0 ELSE nodesBefore(docs, i - 1) + docNodes(docs[i - 1])
docHeap(docs, i) == Unmarshal(<<>>, nodesBefore(docs, i), Doc(docs[i], <<>>)).h
loadDocs(docs) ==
  [h |-> [n \in 1..nodesBefore(docs, Len(docs) + 1) |->
            docHeap(docs, CHOOSE i \in DOMAIN docs :
                            nodesBefore(docs, i) < n /\ n <= nodesBefore(docs, i + 1))[n]],
   used |-> nodesBefore(docs, Len(docs) + 1)]

FilterInit ==
  /\ \E l \in {loadDocs(OperandDocs)} : heap = l.h /\ used = l.used
  /\ steps = 0
  /\ failed = FALSE
  /\ last = [op |-> "start"]

converted(tokens, r) ==
  /\ UNCHANGED <<heap, used>>
  /\ steps' = steps + 1
  /\ failed' = r.err
  /\ last' = [op |-> "convertToRPN", tokens |-> tokens, err |-> r.err, out |-> r.output]

DoConvertToRPN ==
  /\ steps = 0
  /\ \E tokens \in RpnInputs : \E r \in {convertToRPN(tokens)} : converted(tokens, r)

compared(op, n, node, r) ==
  /\ UNCHANGED <<heap, used>>
  /\ steps' = steps + 1
  /\ failed' = r.err
  /\ last' = [op |-> op, n |-> n, node |-> node, err |-> r.err, res |-> r.res]

DoEq ==
  /\ steps = 0
  /\ \E n \in DOMAIN heap, node \in DOMAIN heap : compared("Eq", n, node, Eq(heap, n, node))

DoNeq ==
  /\ steps = 0
  /\ \E n \in DOMAIN heap, node \in DOMAIN heap : compared("Neq", n, node, Neq(heap, n, node))

DoGt ==
  /\ steps = 0
  /\ \E n \in DOMAIN heap, node \in DOMAIN heap : compared("Gt", n, node, Gt(heap, n, node))

DoGte ==
  /\ steps = 0
  /\ \E n \in DOMAIN heap, node \in DOMAIN heap : compared("Gte", n, node, Gte(heap, n, node))

DoLt ==
  /\ steps = 0
  /\ \E n \in DOMAIN heap, node \in DOMAIN heap : compared("Lt", n, node, Lt(heap, n, node))

DoLte ==
  /\ steps = 0
  /\ \E n \in DOMAIN heap, node \in DOMAIN heap : compared("Lte", n, node, Lte(heap, n, node))

\* the expressions given to eval, in postfix form
quotedJ == <<"'", "J", "'">>
\* the operand @[0:2]: the first two elements of the current node
firstTwo == <<atSign, "[", "0", ":", "2", "]">>
EvalRpns ==
  { <<quotedJ>>, <<(<<"\"", "a", "\"">>)>>, <<(<<"1">>)>>, <<(<<atSign>>)>>, <<>>,
    <<(<<atSign>>), (<<"1">>), (<<"=", "=">>)>>,
    <<(<<atSign>>), (<<"1">>), (<<">">>)>>,
    <<(<<atSign>>), quotedJ, (<<"=", "=">>)>>,
    <<(<<atSign, dot, "n">>), quotedJ, (<<"=", "=">>)>>,
    <<(<<atSign>>), (<<"1">>), (<<"&", "&">>)>>,
    <<(<<atSign>>), (<<"1">>), (<<"|", "|">>)>>,
    <<(<<atSign>>), (<<"1">>)>>, <<(<<"=", "=">>)>>, <<(<<"1">>), (<<"+">>)>>,
    <<firstTwo>>, <<firstTwo, (<<"1">>), (<<"=", "=">>)>>,
    <<(<<"1">>), firstTwo, (<<"=", "=">>)>>,
    <<firstTwo, (<<"x">>), (<<"=", "=">>)>>, <<(<<"x">>), firstTwo, (<<"=", "=">>)>>,
    <<firstTwo, (<<"=", "=">>)>>, <<firstTwo, (<<"1">>)>>,
    <<(<<dollarSign, "[", "0", ":", "2", "]">>), (<<"1">>), (<<"=", "=">>)>> }

\* the filters given to processFilter
Filters ==
  { <<"?", "(", "@", ".", "n", " ", "=", "=", " ", "'", "J", "'", ")">>,
    <<"?", "(", "@", " ", "=", "=", " ", "1", ")">>,
    <<"?", "(", "@", " ", ">", " ", "1", ")">>,
    <<"?", "(", "@", " ", "<", "=", " ", "1", " ", "&", "&", " ", "@", ")">>,
    <<"?", "(", "@", ")">>, <<"?", "(", "(", "@", ")">>, <<"?", "(", "1", ")">>,
    <<"?", "(", "@", "[", "0", ":", "2", "]", " ", "=", "=", " ", "1", ")">>,
    <<"?", "(", "@", "[", "0", ":", "2", "]", " ", "=", "=", " ", "x", ")">>,
    <<"?", "(", "x", " ", "=", "=", " ", "@", "[", "0", ":", "2", "]", ")">> }

evaled(node, rpn, r) ==
  /\ heap' = r.h
  /\ used' = r.used
  /\ steps' = steps + 1
  /\ failed' = (r.res # "ok")
  /\ last' = [op |-> "eval", n |-> node, rpn |-> rpn, res |-> r.res, node |-> r.node]

\* eval(node, rpn, cmd)
DoEval ==
  /\ steps = 0
  /\ \E node \in DOMAIN heap, rpn \in EvalRpns :
       \E r \in {eval(heap, used, node, rpn)} : evaled(node, rpn, r)

processed(node, cmd, r) ==
  /\ UNCHANGED <<heap, used>>
  /\ steps' = steps + 1
  /\ failed' = (r.res # "ok")
  /\ last' = [op |-> "processFilter", n |-> node, cmd |-> cmd, res |-> r.res, out |-> r.out]

\* processFilter(cmd, []*Node{node})
DoProcessFilter ==
  /\ steps = 0
  /\ \E node \in DOMAIN heap, cmd \in Filters :
       \E r \in {processFilter(heap, cmd, <<node>>)} : processed(node, cmd, r)

FilterNext ==
  \/ DoConvertToRPN
  \/ DoEq \/ DoNeq \/ DoGt \/ DoGte \/ DoLt \/ DoLte
  \/ DoEval
  \/ DoProcessFilter

FilterSpec == FilterInit /\ [][FilterNext]_vars

\* the number of "(" less the number of ")" among the first i tokens
RECURSIVE parenDepth(_, _)
parenDepth(tokens, i) ==
  IF i = 0 THEN 0
  ELSE parenDepth(tokens, i - 1)
         + (IF tokens[i] = <<parenOpen>> THEN 1
            ELSE IF tokens[i] = <<parenClose>> THEN 0 - 1 ELSE 0)

\* every ")" has an open "(" before it, and every "(" is closed
balancedParens(tokens) ==
  /\ \A i \in 1..Len(tokens) : parenDepth(tokens, i) >= 0
  /\ parenDepth(tokens, Len(tokens)) = 0

\* the operators of e outside every pair of parentheses
outerOperators(e) ==
  {i \in 1..Len(e) : isOperator(e[i]) /\ parenDepth(e, i) = 0}

\* the table of the operators, from the weakest to the strongest
Strengths ==
  << {<<"|", "|">>}, {<<"&", "&">>}, {<<"=", "=">>, <<"!", "=">>},
     {<<"<">>, <<"<", "=">>, <<">">>, <<">", "=">>}, {<<"+">>, <<"-">>},
     {<<"*">>, <<"/">>, <<"%">>} >>
Strength(o) == CHOOSE l \in DOMAIN Strengths : o \in Strengths[l]

\* the operator that is applied last: the rightmost of the weakest
lastApplied(e) ==
  CHOOSE k \in outerOperators(e) :
    \A i \in outerOperators(e) :
      \/ Strength(e[i]) > Strength(e[k])
      \/ Strength(e[i]) = Strength(e[k]) /\ i <= k

\* the postfix form of the infix expression e, by the grammar: ok is FALSE
\* when e is not an infix expression
RECURSIVE Postfix(_)
joined(l, r, o) ==
  [ok |-> l.ok /\ r.ok, out |-> l.out \o r.out \o <<o>>]

Postfix(e) ==
  IF Len(e) = 0 THEN [ok |-> FALSE, out |-> <<>>]
  ELSE IF \E i \in 1..Len(e) : parenDepth(e, i) < 0 THEN [ok |-> FALSE, out |-> <<>>]
  ELSE IF outerOperators(e) # {}
       THEN joined(Postfix(SubSeq(e, 1, lastApplied(e) - 1)),
                   Postfix(SubSeq(e, lastApplied(e) + 1, Len(e))), e[lastApplied(e)])
  ELSE IF Len(e) = 1 THEN [ok |-> isOperand(e[1]), out |-> e]
  ELSE IF e[1] = <<parenOpen>> /\ e[Len(e)] = <<parenClose>>
       THEN Postfix(SubSeq(e, 2, Len(e) - 1))
  ELSE [ok |-> FALSE, out |-> <<>>]

\* the tokens of s that are in the set S, in their order
Only(s, S) == SelectSeq(s, LAMBDA t : t \in S)
Operands(s) == SelectSeq(s, LAMBDA t : isOperand(t))

\* C23: on a token sequence with balanced parentheses convertToRPN outputs
\* the operands in their original order, every operator of the input as
\* often as it occurs there and no parenthesis; when the sequence is an infix
\* expression the output is its postfix form by the table of precedences,
\* every operator associating to the left and parentheses overriding the
\* precedences.
C23_PostfixByPrecedence ==
  (last.op = "convertToRPN" /\ balancedParens(last.tokens))
    => /\ ~last.err
       /\ Operands(last.out) = Operands(last.tokens)
       /\ \A o \in Operators : Len(Only(last.out, {o})) = Len(Only(last.tokens, {o}))
       /\ Only(last.out, {<<parenOpen>>, <<parenClose>>}) = <<>>
       /\ Postfix(last.tokens).ok => last.out = Postfix(last.tokens).out

\* a - b - c gives a b - c -, and a || (b == c) is what a || b == c gives
C23_LeftAssociative ==
  /\ last.op = "convertToRPN"
  /\ last.tokens = <<(<<"a">>), (<<"-">>), (<<"b">>), (<<"-">>), (<<"c">>)>>
  /\ Postfix(last.tokens).ok
  /\ last.out = <<(<<"a">>), (<<"b">>), (<<"-">>), (<<"c">>), (<<"-">>)>>

\* C24: convertToRPN returns an error exactly when the parentheses are
\* mismatched: a ")" with no open "(" before it, or a "(" that is never
\* closed.
C24_ErrorIffMismatched ==
  last.op = "convertToRPN" => (last.err <=> ~balancedParens(last.tokens))

\* the sequence ) ( has as many "(" as ")" and is rejected
C24_CloseBeforeOpen ==
  /\ last.op = "convertToRPN"
  /\ last.tokens = <<(<<parenClose>>), (<<parenOpen>>)>>
  /\ last.err

\* structural equality by kind: the same kind and equal content
RECURSIVE SameContent(_, _, _)
SameContent(h, a, b) ==
  /\ h[a].nodeType = h[b].nodeType
  /\ CASE h[a].nodeType \in {Boolean, Number, String} ->
            Value(h, a).value = Value(h, b).value
       [] h[a].nodeType = Null -> TRUE
       [] h[a].nodeType = Array ->
            /\ Size(h, a) = Size(h, b)
            /\ \A k \in DOMAIN h[a].next :
                 k \in DOMAIN h[b].next /\ SameContent(h, h[a].next[k], h[b].next[k])
       [] OTHER ->
            /\ DOMAIN h[a].next = DOMAIN h[b].next
            /\ \A k \in DOMAIN h[a].next : SameContent(h, h[a].next[k], h[b].next[k])

\* C25: == is structural equality by kind (nodes of different kinds are
\* unequal, arrays are equal when they have the same length and pairwise
\* equal elements, objects when they have the same keys and keywise equal
\* members), and != is its negation.
C25_StructuralEquality ==
  /\ last.op = "Eq" => (~last.err /\ last.res = SameContent(heap, last.n, last.node))
  /\ last.op = "Neq" => (~last.err /\ last.res = ~SameContent(heap, last.n, last.node))

\* a number and a string are equal for Eq
C25_NumberEqualsString ==
  /\ last.op = "Eq"
  /\ heap[last.n].nodeType = Number
  /\ heap[last.node].nodeType = String
  /\ ~last.err
  /\ last.res

\* both operands are numbers, or both are strings
Comparable(h, a, b) ==
  h[a].nodeType = h[b].nodeType /\ h[a].nodeType \in {Number, String}

\* the comparison op of two numbers or of two strings
Comparison(op, l, r) ==
  IF l[1] = "num" THEN ordered(op, l[2], r[2]) ELSE orderedStrings(op, l[2], r[2])

\* C26: <, <=, >, >= return the numeric comparison of two numbers and the
\* lexicographic comparison of two strings; every other combination of
\* operands, two operands of different kinds among them, is an error.
C26_OrderOnlyOfOneKind ==
  last.op \in {"Gt", "Gte", "Lt", "Lte"}
    => IF Comparable(heap, last.n, last.node)
       THEN /\ ~last.err
            /\ last.res = Comparison(last.op, Value(heap, last.n).value,
                                     Value(heap, last.node).value)
       ELSE last.err

\* a number compared with a string: false, and no error
C26_NumberAgainstString ==
  /\ last.op = "Lt"
  /\ heap[last.n].nodeType = Number
  /\ heap[last.node].nodeType = String
  /\ ~last.err
  /\ ~last.res

\* the token is a literal in single quotes
singleQuoted(token) ==
  Len(token) >= 2 /\ token[1] = singleQuote /\ token[Len(token)] = singleQuote

\* the children of n that are objects whose member key is the string text
RECURSIVE membersAre(_, _, _, _)
membersAre(h, children, key, text) ==
  IF children = <<>> THEN <<>>
  ELSE (IF /\ IsObject(h, Head(children))
           /\ key \in DOMAIN h[Head(children)].next
           /\ h[h[Head(children)].next[key]].nodeType = String
           /\ Value(h, h[Head(children)].next[key]).value = <<"str", text>>
        THEN <<Head(children)>> ELSE <<>>) \o membersAre(h, Tail(children), key, text)

\* C22: eval pushes a literal in single quotes as a String node whose value
\* is the text between the quotes, and the filter ?(@.n == 'J') is evaluated
\* without error and keeps exactly the children whose member n is the string
\* J.
C22_QuotedLiteralIsString ==
  /\ (last.op = "eval" /\ Len(last.rpn) = 1 /\ singleQuoted(last.rpn[1]))
       => /\ last.res = "ok"
          /\ last.node # NIL
          /\ heap[last.node].nodeType = String
          /\ Value(heap, last.node).value
               = <<"str", SubSeq(last.rpn[1], 2, Len(last.rpn[1]) - 1)>>
  /\ (last.op = "processFilter" /\ last.cmd = <<"?", "(">> \o <<atSign, dot, "n">>
                                     \o <<" ", "=", "=", " ">> \o quotedJ \o <<")">>
        /\ isContainer(heap, last.n))
       => /\ last.res = "ok"
          /\ last.out = membersAre(heap, getSortedChildren(heap, last.n), <<"n">>, <<"J">>)

\* eval of the literal 'J' alone returns an error
C22_QuotedLiteralRejected ==
  /\ last.op = "eval"
  /\ last.rpn = <<quotedJ>>
  /\ singleQuoted(last.rpn[1])
  /\ last.res = "err"

\* the indices given to GetIndex: those of the largest array, and one more
\* at either end
IndexRange == (0 - MaxNodes - 1)..(MaxNodes + 1)

\* C27: on an array of size s GetIndex(i) returns the child at position i for
\* 0 <= i < s and the child at position s + i for -s <= i < 0, and an error
\* for every other i and for every receiver that is no array.
C27_GetIndexByPosition ==
  \A n \in DOMAIN heap, idx \in IndexRange :
    IF IsArray(heap, n)
    THEN IF (0 <= idx /\ idx < Size(heap, n)) \/ (0 - Size(heap, n) <= idx /\ idx < 0)
         THEN /\ GetIndex(heap, n, idx) # NIL
              /\ LET pos == IF idx < 0 THEN Size(heap, n) + idx ELSE idx
                 IN /\ Itoa(pos) \in DOMAIN heap[n].next
                    /\ GetIndex(heap, n, idx) = heap[n].next[Itoa(pos)]
         ELSE GetIndex(heap, n, idx) = NIL
    ELSE GetIndex(heap, n, idx) = NIL

\* an array of two elements: GetIndex(-1) is the second, GetIndex(0) the
\* first, and GetIndex(2) is an error
C27_LastOfTwo ==
  \E n \in DOMAIN heap :
    /\ IsArray(heap, n)
    /\ Size(heap, n) = 2
    /\ GetIndex(heap, n, 0 - 1) = heap[n].next[<<"1">>]
    /\ GetIndex(heap, n, 0) = heap[n].next[<<"0">>]
    /\ GetIndex(heap, n, 0) # GetIndex(heap, n, 0 - 1)
    /\ GetIndex(heap, n, 2) = NIL

\* --------------------------------------------------------------- IntSpec
\* ParseIntLiteral: n is an unsigned integer of IntBits bits, whose sums
\* wrap, and the result a signed one.
\* the outcome of ParseIntLiteral: err is "" for nil
IntParsed(v, err) == [v |-> v, err |-> err]

\* the end of ParseIntLiteral that refuses the magnitude of the least integer
checkedNoMin(neg, n) ==
  IF n > maxInt64 THEN IntParsed(0, "range")
  ELSE IntParsed(IF neg THEN 0 - n ELSE n, "")

\* the end of ParseIntLiteral, after the loop
checked(neg, n) ==
  IF n > maxInt64
  THEN (IF neg /\ n = absMinInt64 THEN IntParsed(0 - absMinInt64, "")
        ELSE IntParsed(0, "range"))
  ELSE IntParsed(IF neg THEN 0 - n ELSE n, "")

\* the loop over the bytes: n1 is n * 10 + (c - '0') in IntBits bits
RECURSIVE digitsLoop(_, _, _)
digitAdded(neg, bytes, n, n1) ==
  IF n1 < n THEN IntParsed(0, "range") ELSE digitsLoop(neg, Tail(bytes), n1)

digitsLoop(neg, bytes, n) ==
  IF bytes = <<>> THEN checked(neg, n)
  ELSE IF notDigit(Head(bytes)) THEN IntParsed(0, "digit")
  ELSE IF n > maxUint64 \div 10 THEN IntParsed(0, "range")
  ELSE digitAdded(neg, bytes, n * 10,
                  (n * 10 + (ByteValue(Head(bytes)) - 48)) % (maxUint64 + 1))

ParseIntLiteral(bytes) ==
  IF Len(bytes) = 0 THEN IntParsed(0, "empty")
  ELSE digitsLoop(trimNegativeSign(bytes).neg, trimNegativeSign(bytes).trimmed, 0)

\* the integers whose decimal strings are parsed: beyond ten times the
\* largest unsigned integer on either side
Decimals == (0 - 12 * (maxUint64 + 1))..(12 * (maxUint64 + 1))

\* the byte slices that are parsed: up to MaxIntBytes bytes
MaxIntBytes == 3
IntBytes == {"-", "/", "0", "1", "9", ":", "?", "a"}
IntInputs == UNION {[1..n -> IntBytes] : n \in 0..MaxIntBytes}

IntInit ==
  /\ heap = <<>>
  /\ used = 0
  /\ steps = 0
  /\ failed = FALSE
  /\ last = [op |-> "start"]

parsedInt(op, k, bytes, r) ==
  /\ UNCHANGED <<heap, used>>
  /\ steps' = steps + 1
  /\ failed' = (r.err # "")
  /\ last' = [op |-> op, k |-> k, bytes |-> bytes, v |-> r.v, err |-> r.err]

\* ParseIntLiteral([]byte(strconv.Itoa(k)))
DoParseDecimal ==
  /\ steps = 0
  /\ \E k \in Decimals : parsedInt("decimal", k, Itoa(k), ParseIntLiteral(Itoa(k)))

\* ParseIntLiteral(bytes)
DoParseBytes ==
  /\ steps = 0
  /\ \E bytes \in IntInputs : parsedInt("bytes", 0, bytes, ParseIntLiteral(bytes))

\* the byte slices given to ParseFloatLiteral: up to MaxFloatBytes bytes
MaxFloatBytes == 4
FloatBytes == {"-", "+", ".", "0", "1", "9", ":", "e", "E", "a"}
FloatInputs == UNION {[1..n -> FloatBytes] : n \in 0..MaxFloatBytes}

\* ParseFloatLiteral(bytes)
DoParseFloat ==
  /\ steps = 0
  /\ \E bytes \in FloatInputs :
       LET f == ParseFloatLiteral(bytes)
       IN parsedInt("float", 0, bytes, IntParsed(f.value, f.why))

IntNext == DoParseDecimal \/ DoParseBytes \/ DoParseFloat

IntSpec == IntInit /\ [][IntNext]_vars

\* C29: ParseIntLiteral gives k back for the decimal string of every k from
\* the least to the greatest signed integer (the least one, -2^(bits-1),
\* included), and an overflow error for the decimal string of every integer
\* outside that range.
C29_DecimalRoundTrip ==
  last.op = "decimal"
    => IF 0 - absMinInt64 <= last.k /\ last.k <= maxInt64
       THEN last.err = "" /\ last.v = last.k
       ELSE last.err = "range"

\* the least integer is parsed
C29_LeastInteger ==
  /\ last.op = "decimal"
  /\ last.k = 0 - absMinInt64
  /\ last.bytes = Itoa(0 - absMinInt64)
  /\ last.err = ""
  /\ last.v = 0 - absMinInt64

\* an optional "-" and then one ASCII digit or more
RECURSIVE allDigits(_)
allDigits(bytes) == bytes = <<>> \/ (IsDigit(Head(bytes)) /\ allDigits(Tail(bytes)))

isInteger(bytes) ==
  /\ Len(bytes) > 0
  /\ IF bytes[1] = "-" THEN Len(bytes) > 1 /\ allDigits(Tail(bytes)) ELSE allDigits(bytes)

\* C30: ParseIntLiteral returns an error, and no value, for every input that
\* is not an optional "-" followed by one or more of the digits 0 .. 9.
C30_NonDigitsRejected ==
  (last.op = "bytes" /\ ~isInteger(last.bytes)) => last.err # ""

\* the byte ":" is parsed as the integer 10
C30_ColonIsTen ==
  /\ last.op = "bytes"
  /\ last.bytes = <<":">>
  /\ ~isInteger(last.bytes)
  /\ last.err = ""
  /\ last.v = 10

\* the keys under which the parent of n holds n
heldUnder(h, n) == {k \in DOMAIN h[h[n].prev].next : h[h[n].prev].next[k] = n}

\* n is a root, or its parent is a container that holds it under one key
placed(h, n) == h[n].prev = NIL \/ Cardinality(heldUnder(h, n)) = 1

\* n is a node of a tree: the parent links lead to a root, and n and each of
\* its ancestors is placed
inTree(h, n) ==
  /\ ReachesRoot(h, n)
  /\ \A a \in {n} \cup Ancestors(h, n) : placed(h, a)

\* the path of a node of a tree: $, and for each step from the root down
\* ['k'] under an object and [i] under an array, k and i being the name and
\* the place under which the parent holds the node
RECURSIVE pathFromRoot(_, _)
pathFromRoot(h, n) ==
  IF h[n].prev = NIL THEN <<dollarSign>>
  ELSE pathFromRoot(h, h[n].prev)
         \o (IF IsObject(h, h[n].prev)
             THEN <<bracketOpen, singleQuote>> \o (CHOOSE k \in heldUnder(h, n) : TRUE)
                    \o <<singleQuote, bracketClose>>
             ELSE <<bracketOpen>> \o (CHOOSE k \in heldUnder(h, n) : TRUE)
                    \o <<bracketClose>>)

\* C28: for every node of every tree (parsed, built with the constructors or
\* changed by the mutators) Path() is $ followed, for each step from the root
\* down to the node, by ['k'] when the parent of the step is an object and
\* by [i] when it is an array.
C28_PathBySteps ==
  \A n \in DOMAIN heap : inTree(heap, n) => nodePath(heap, n) = pathFromRoot(heap, n)

\* the one element of an array built by ArrayNode has a path with its key
C28_ElementPathHasKey ==
  \E n \in DOMAIN heap :
    /\ last.op = "ArrayNode"
    /\ heap[n].prev = last.new
    /\ IsArray(heap, heap[n].prev)
    /\ inTree(heap, n)
    /\ heap[n].key # NoKey
    /\ nodePath(heap, n)
         = <<dollarSign, bracketOpen, singleQuote>> \o heap[n].key[1]
             \o <<singleQuote, bracketClose>>
    /\ pathFromRoot(heap, n) = <<dollarSign, bracketOpen, "0", bracketClose>>

\* -------------------------------------------------------------------- C31
\* the literal without its sign, its mantissa (up to the first e or E) and
\* its exponent (after it)
unsignedLiteral(bytes) == IF bytes # <<>> /\ Head(bytes) = "-" THEN Tail(bytes) ELSE bytes
hasExponent(s) == \E i \in 1..Len(s) : s[i] \in {"e", "E"}
firstExponent(s) ==
  CHOOSE i \in 1..Len(s) : s[i] \in {"e", "E"} /\ \A j \in 1..(i - 1) : s[j] \notin {"e", "E"}
mantissaOf(s) == IF hasExponent(s) THEN SubSeq(s, 1, firstExponent(s) - 1) ELSE s
exponentOf(s) == SubSeq(s, firstExponent(s) + 1, Len(s))
signedInteger(e) ==
  LET d == IF e # <<>> /\ Head(e) \in {"+", "-"} THEN Tail(e) ELSE e
  IN d # <<>> /\ \A i \in 1..Len(d) : IsDigit(d[i])
points(m) == Cardinality({i \in 1..Len(m) : m[i] = "."})
nonDigit(m) == \E i \in 1..Len(m) : m[i] # "." /\ ~IsDigit(m[i])
exceeds(m) == ~nonDigit(m) /\ digitsValue(SelectSeq(m, IsDigit), 0) > maxUint64
malformedExponent(s) == hasExponent(s) /\ ~signedInteger(exponentOf(s))

\* C31: ParseFloatLiteral returns an error for the empty input, for a
\* mantissa with more than one decimal point, for a mantissa with a byte that
\* is no digit, for a mantissa whose digits exceed the largest unsigned
\* integer, and for an e or E that no optionally signed decimal integer
\* follows.
C31_ErrorsReported ==
  last.op = "float" =>
    LET s == unsignedLiteral(last.bytes)
    IN (\/ last.bytes = <<>>
        \/ points(mantissaOf(s)) > 1
        \/ nonDigit(mantissaOf(s))
        \/ exceeds(mantissaOf(s))
        \/ malformedExponent(s)) => last.err # ""

\* ParseFloatLiteral("1e"): the exponent part is empty, strconv.Atoi is not
\* called, and 1 is returned with a nil error
C31_BareExponentAccepted ==
  /\ last.op = "float"
  /\ last.bytes = <<"1", "e">>
  /\ last.err = ""
  /\ last.v = 1


\* ------------------------------------------------------------ IndentSpec
\* Indent (indent.go)
curlyOpen == "{"
curlyClose == "}"
comma == ","

\* writeNewlineAndIndent: a line feed and level times the two spaces
writeNewlineAndIndent(out, level) == out \o <<"\n">> \o [k \in 1..(2 * Max0(level)) |-> " "]

\* the loop of Indent over the bytes of data, from the Go offset i
RECURSIVE indentLoop(_, _, _, _)
indentLoop(data, i, out, level) ==
  IF i >= Len(data) THEN out
  ELSE LET c == data[i + 1]
       IN CASE c \in {curlyOpen, bracketOpen} ->
                 IF i + 1 < Len(data) /\ data[i + 2] \in {"}", "]"}
                 THEN indentLoop(data, i + 2, out \o <<c, data[i + 2]>>, level)
                 ELSE indentLoop(data, i + 1, writeNewlineAndIndent(out \o <<c>>, level + 1),
                                 level + 1)
            [] c \in {curlyClose, bracketClose} ->
                 indentLoop(data, i + 1, writeNewlineAndIndent(out, level - 1) \o <<c>>,
                            level - 1)
            [] c = comma ->
                 indentLoop(data, i + 1, writeNewlineAndIndent(out \o <<c>>, level), level)
            [] c = colon -> indentLoop(data, i + 1, out \o <<c, " ">>, level)
            [] OTHER -> indentLoop(data, i + 1, out \o <<c>>, level)

Indent(data) == indentLoop(data, 0, <<>>, 0)

\* the strings of the values and keys: up to MaxIndentString bytes
MaxIndentString == 2
IndentBytes == {"a", "{", "}", "[", "]", ",", ":"}
IndentStrings == UNION {[1..n -> IndentBytes] : n \in 0..MaxIndentString}

\* the documents that are parsed before they are marshalled
IndentDocs ==
  { <<"1">>, <<"[", "]">>, <<"{", "}">>, <<"[", "1", "]">>, <<"[", "1", ",", "2", "]">>,
    <<"[", "[", "1", "]", ",", "[", "]", "]">>,
    <<"{", "\"", "a", "\"", ":", "1", "}">>,
    <<"{", "\"", "a", "\"", ":", "[", "{", "}", ",", "2", "]", "}">>,
    <<"{", "\"", "a", "\"", ":", "{", "\"", "b", "\"", ":", "n", "u", "l", "l", "}", "}">>,
    <<"[", "\"", "a", ",", "\"", "]">> }

IndentInit ==
  /\ heap = <<>>
  /\ used = 0
  /\ steps = 0
  /\ failed = FALSE
  /\ last = [op |-> "start"]

\* b, _ := Marshal(n); out, _ := Indent(b); t, err := Unmarshal(out): m is
\* what Marshal returned, out what Indent returned, t what Unmarshal
\* returned, and same tells whether t is a tree with the content of n
indentedSame(op, value, u, n, m, out, same) ==
  /\ heap' = m.h
  /\ used' = u
  /\ steps' = steps + 1
  /\ failed' = (m.res # "ok")
  /\ last' = [op |-> op, value |-> value, n |-> n, res |-> m.res, bytes |-> m.out,
              out |-> out, same |-> m.res = "ok" /\ same]

indentedTree(op, value, u, n, m, out, t) ==
  indentedSame(op, value, u, n, m, out,
               t.res = "ok" /\ Content(t.h, t.root, t.used + 1) = Content(m.h, n, u + 1))

indentedOut(op, value, u, n, m, out) ==
  indentedTree(op, value, u, n, m, out, Unmarshal(<<>>, 0, Doc(out, <<>>)))

indentedBytes(op, value, u, n, m) == indentedOut(op, value, u, n, m, Indent(m.out))

indented(op, value, h, u, n) == indentedBytes(op, value, u, n, Marshal(h, n, {}, u + 1))

\* n := StringNode("", s)
DoIndentString ==
  /\ steps = 0
  /\ \E s \in IndentStrings : indented("String", s, StringNode(heap, 1, <<>>, s), 1, 1)

\* n := ArrayNode("", []*Node{StringNode("", s), NumberNode("", 5)})
DoIndentElement ==
  /\ steps = 0
  /\ \E s \in IndentStrings :
       indented("Element", s,
                ArrayNode(NumberNode(StringNode(heap, 1, <<>>, s), 2, <<>>, 5), 3, <<>>,
                          <<(<<1, 2>>)>>), 3, 3)

\* n := ObjectNode("", map[string]*Node{s: NullNode("")})
DoIndentMember ==
  /\ steps = 0
  /\ \E s \in IndentStrings :
       indented("Member", s,
                ObjectNode(NullNode(heap, 1, <<>>), 2, <<>>, <<(<<(<<s, 1>>)>>)>>), 2, 2)

\* n, _ := Unmarshal(doc)
DoIndentParsed ==
  /\ steps = 0
  /\ \E doc \in IndentDocs :
       LET u == Unmarshal(heap, 0, Doc(doc, <<>>))
       IN u.res = "ok" /\ indented("Parsed", doc, u.h, u.used, u.root)

IndentNext == DoIndentString \/ DoIndentElement \/ DoIndentMember \/ DoIndentParsed

IndentSpec == IndentInit /\ [][IndentNext]_vars

\* C32: Unmarshal of Indent(Marshal(n)) builds a tree with the content of n,
\* for every node n, whatever bytes its string values and its keys hold
\* (the brackets, the comma and the colon included).
C32_IndentRoundTrip == last.op \in {"String", "Element", "Member", "Parsed"} => last.same

\* Indent(`"a,"`) writes a line feed after the comma inside the string
C32_CommaInString ==
  /\ last.op = "String"
  /\ last.value = <<"a", ",">>
  /\ last.bytes = <<"\"", "a", ",", "\"">>
  /\ last.out = <<"\"", "a", ",", "\n", "\"">>
  /\ ~last.same

\* ----------------------------------------------------------- UnquoteSpec
\* the code units of the escapes: the ends of the two surrogate ranges, the
\* units next to them, a and the last unit
Units == {97, 55295, 55296, 56319, 56320, 57343, 57344, 65535}

\* the four hexadecimal digits of a code unit, and its escape
Hex4(n) == <<HexChars[(n \div 4096) + 1], HexChars[((n \div 256) % 16) + 1],
             HexChars[((n \div 16) % 16) + 1], HexChars[(n % 16) + 1]>>
Escape(n) == <<"\\", "u">> \o Hex4(n)

\* the pieces of the string literals: the escape of a code unit, a plain
\* byte, and six plain bytes that end with four hexadecimal digits
Plain(bytes) == [unit |-> 0 - 1, bytes |-> bytes]
Pieces ==
  {[unit |-> n, bytes |-> Escape(n)] : n \in Units}
  \cup {Plain(<<"a">>), Plain(<<"a", "a">> \o Hex4(lowSurrogateOffset))}

\* the string literals: up to MaxPieces pieces between double quotes
MaxPieces == 3
Literals == UNION {[1..n -> Pieces] : n \in 0..MaxPieces}

RECURSIVE Interior(_)
Interior(pieces) ==
  IF pieces = <<>> THEN <<>> ELSE Head(pieces).bytes \o Interior(Tail(pieces))

UnquoteInit ==
  /\ heap = <<>>
  /\ used = 0
  /\ steps = 0
  /\ failed = FALSE
  /\ last = [op |-> "start"]

unquoted(pieces, u) ==
  /\ UNCHANGED <<heap, used>>
  /\ steps' = steps + 1
  /\ failed' = ~u.ok
  /\ last' = [op |-> "unquote", pieces |-> pieces, ok |-> u.ok, out |-> u.out]

\* unquoteBytes(s, '"')
DoUnquote ==
  /\ steps = 0
  /\ \E pieces \in Literals :
       unquoted(pieces, Unquote(<<"\"">> \o Interior(pieces) \o <<"\"">>, "\""))

UnquoteNext == DoUnquote

UnquoteSpec == UnquoteInit /\ [][UnquoteNext]_vars

\* -------------------------------------------------------------------- C33
isHigh(n) == highSurrogateOffset <= n /\ n <= 56319
isLow(n) == lowSurrogateOffset <= n /\ n <= surrogateEnd

\* a literal without a low surrogate that follows no high surrogate
RECURSIVE NoLoneLow(_)
NoLoneLow(pieces) ==
  IF pieces = <<>> THEN TRUE
  ELSE IF isHigh(Head(pieces).unit)
  THEN (IF Len(pieces) >= 2 /\ isLow(pieces[2].unit) THEN NoLoneLow(Tail(Tail(pieces)))
        ELSE NoLoneLow(Tail(pieces)))
  ELSE ~isLow(Head(pieces).unit) /\ NoLoneLow(Tail(pieces))

\* the text of a literal: a high surrogate and the low surrogate after it
\* give one code point, a high surrogate before anything else is an error
RECURSIVE TextOfPieces(_)
TextOfPieces(pieces) ==
  IF pieces = <<>> THEN [ok |-> TRUE, out |-> <<>>]
  ELSE IF isHigh(Head(pieces).unit)
  THEN (IF Len(pieces) >= 2 /\ isLow(pieces[2].unit)
        THEN [ok |-> TextOfPieces(Tail(Tail(pieces))).ok,
              out |-> <<EncodeRune(combineSurrogates(pieces[1].unit, pieces[2].unit))>>
                      \o TextOfPieces(Tail(Tail(pieces))).out]
        ELSE [ok |-> FALSE, out |-> <<>>])
  ELSE [ok |-> TextOfPieces(Tail(pieces)).ok,
        out |-> (IF Head(pieces).unit < 0 THEN Head(pieces).bytes
                 ELSE <<EncodeRune(Head(pieces).unit)>>)
                \o TextOfPieces(Tail(pieces)).out]

\* C33: an escape in the high-surrogate range is accepted only if the next
\* six bytes are an escape in the low-surrogate range; the two escapes are
\* consumed together and the one combined code point is written once; a high
\* surrogate followed by anything else is rejected.
C33_SurrogatePairs ==
  (last.op = "unquote" /\ NoLoneLow(last.pieces)) =>
    /\ last.ok = TextOfPieces(last.pieces).ok
    /\ last.ok => last.out = TextOfPieces(last.pieces).out

\* the escape of D800 and the escape of DC00 after it: the pair is decoded,
\* the cursor moves over the first escape only, and the low surrogate is
\* then read as the start of another pair
C33_PairRejected ==
  /\ last.op = "unquote"
  /\ last.pieces = <<[unit |-> 55296, bytes |-> Escape(55296)],
                     [unit |-> 56320, bytes |-> Escape(56320)]>>
  /\ ~last.ok

\* -------------------------------------------------------------------- C34
\* the calls that change a node and are given no other node
OwnMutators == {"SetNull", "SetNumber", "SetString", "Delete", "DeleteIndex"}

\* the structs of the tree of n are what they were
SameTree(h, h2, n) == \A x \in treeOf(h, n) : h2[x] = h[x]

\* C34: a clone is independent of its original: a mutator applied, after
\* c = n.Clone(), to a node of the tree of c changes no node of the tree of n
\* (its children, values and modified flags, and so its Marshal output), and
\* a mutator applied to a node of the tree of n changes no node of the tree
\* of c.
C34_CloneIndependent ==
  [][(last.op = "Clone" /\ last.res = "ok" /\ last'.op \in OwnMutators)
     => /\ last'.n \in treeOf(heap, last.new) => SameTree(heap, heap', last.n)
        /\ last'.n \in treeOf(heap, last.n) => SameTree(heap, heap', last.new)]_vars

\* SetNull on the element of a clone of a parsed array: the parent link of
\* the element leads to the array that was cloned, which is now modified,
\* while the clone is not
C34_OriginalMarked ==
  /\ last.op = "SetNull" /\ last.res = "ok"
  /\ \E c \in Nodes, r \in Nodes :
       /\ c # r
       /\ heap[c].prev = NIL /\ last.n \in Children(heap, c)
       /\ heap[last.n].prev = r /\ last.n \notin Children(heap, r)
       /\ heap[r].data # NoData /\ heap[r].data = heap[c].data
       /\ heap[r].modified /\ ~heap[c].modified

\* -------------------------------------------------------------------- C35
\* the bytes read so far go beyond the end of the root value (the tokens
\* hold no white space)
pastRoot(h, data) == 1 \in DOMAIN h /\ ready(h, 1) /\ h[1].borders[2] < Len(data)

\* n was attached to its parent after the closing bracket of the parent
attachedLate(h, n) ==
  /\ h[n].prev # NIL
  /\ ready(h, h[n].prev)
  /\ h[n].borders[1] >= h[h[n].prev].borders[2]

\* C35: Unmarshal returns an error whenever a byte that is no white space
\* follows the end of the root value, and no node is ever attached as a child
\* to a container whose closing bracket has been read.
C35_NothingAfterRoot ==
  (last.op = "token" /\ last.res = "ok") =>
    /\ pastRoot(heap, last.d.b.data) => decodeEnd(decoderOf(last, heap, used)).res = "err"
    /\ \A n \in DOMAIN heap : ~attachedLate(heap, n)

\* Unmarshal(`[],"a"`) returns the array, without an error, and the string
\* is its element 0
C35_ValueAfterRoot ==
  /\ last.op = "token" /\ last.res = "ok"
  /\ last.d.b.data = <<"[", "]", ",", "\"", "a", "\"">>
  /\ decodeEnd(decoderOf(last, heap, used)).res = "ok"
  /\ decodeEnd(decoderOf(last, heap, used)).root = 1
  /\ heap[1].borders = <<0, 2>>
  /\ DOMAIN heap[1].next = {<<"0">>}
  /\ attachedLate(heap, heap[1].next[<<"0">>])

\* -------------------------------------------------------------------- C36
\* the children of the array n in the order of the keys 0, 1, ... of next
inIndexOrder(h, n) == [i \in 1..Size(h, n) |-> h[n].next[Itoa(i - 1)]]

\* C36: the cached container value is never stale: after any calls of the
\* constructors and mutators, GetArray returns the children of the array in
\* the order of their indices and GetObject returns the map from the keys of
\* the object to its children, also when the value was computed before the
\* calls.
C36_ContainerValueFresh ==
  Alive =>
    \A n \in Nodes :
      /\ (IsArray(heap, n) /\ Contiguous(heap, n)) =>
           /\ GetArray(heap, n).res = "ok"
           /\ GetArray(heap, n).value = inIndexOrder(heap, n)
      /\ IsObject(heap, n) =>
           /\ GetObject(heap, n).res = "ok"
           /\ GetObject(heap, n).value = heap[n].next

\* ArrayNode kept the slice it was given as the value of the array and
\* DeleteIndex then took the only element out: GetArray still returns the
\* slice with the element, which has no parent any more
C36_StaleAfterDeleteIndex ==
  /\ last.op = "DeleteIndex" /\ last.res = "ok"
  /\ heap[last.n].data = NoData
  /\ heap[last.n].next = EmptyMap
  /\ heap[last.n].value # NoValue
  /\ GetArray(heap, last.n).res = "ok"
  /\ Len(GetArray(heap, last.n).value) = 1
  /\ heap[GetArray(heap, last.n).value[1]].prev = NIL

\* -------------------------------------------------------------------- C37
\* Index() >= 0: the node carries an index
carriesIndex(h, n) == h[n].index # NoIndex /\ h[n].index >= 0
\* the key pointer of the node is set: the node carries a key
carriesKey(h, n) == h[n].key # NoKey

\* C37: after any sequence of public calls a node carries an index if and
\* only if its parent is an array, and a key if and only if its parent is an
\* object; a node without a parent carries neither.
C37_KeyAndIndexByParent ==
  Alive =>
    \A n \in Nodes :
      /\ carriesIndex(heap, n) <=> (heap[n].prev # NIL /\ IsArray(heap, heap[n].prev))
      /\ carriesKey(heap, n) <=> (heap[n].prev # NIL /\ IsObject(heap, heap[n].prev))

\* DeleteIndex took an element out of its array: the element has no parent
\* and Index() still returns the place it had
C37_IndexAfterDeleteIndex ==
  /\ last.op = "DeleteIndex" /\ last.res = "ok"
  /\ \E n \in Nodes :
       /\ heap[n].prev = NIL
       /\ carriesIndex(heap, n)
       /\ \A a \in Arrays(heap) : \A k \in DOMAIN heap[a].next : heap[a].next[k] # n

\* -------------------------------------------------------------------- C38
\* expr is an operand of a filter that names nodes: it starts with @ or $
isPathOperand(expr) ==
  ~isOperation(expr) /\ (HasPrefix(expr, <<atSign>>) \/ HasPrefix(expr, <<dollarSign>>))

\* the nodes that the operand expr names for node
resolvedTo(h, node, expr) == applyPath(h, node, parsePath(expr).out)

\* the operand expr resolves for node, to no node or to more than one
unresolved(h, node, expr) ==
  /\ isPathOperand(expr)
  /\ ~parsePath(expr).err
  /\ resolvedTo(h, node, expr).res = "ok"
  /\ Len(resolvedTo(h, node, expr).out) # 1

\* the children of node for which an operand of the filter cmd resolves to
\* no node or to more than one
unresolvedChildren(h, node, cmd) ==
  { c \in Children(h, node) :
      \E i \in DOMAIN parseFilterExpression(cmd).out :
        unresolved(h, c, parseFilterExpression(cmd).out[i]) }

reached(h, u0, node, rpn, i) == eval(h, u0, node, SubSeq(rpn, 1, i)).res = "ok"

RECURSIVE skipUntil(_, _)
skipUntil(b, endTokens) ==
  IF b.index >= b.length THEN [b |-> b, err |-> TRUE]
  ELSE IF At(b, b.index) \in endTokens THEN [b |-> b, err |-> FALSE]
  ELSE skipUntil([b EXCEPT !.index = @ + 1], endTokens)

\* the bytes that pathToken takes as part of a token
tokenBytes ==
  {".", ",", "$", "@", "*", "&", "|"}
    \cup {"a", "b", "c", "d", "e", "f", "g", "h", "i", "j", "k", "l", "m", "n", "o", "p",
          "q", "r", "s", "t", "u", "v", "w", "x", "y", "z"}
    \cup {"A", "B", "C", "D", "E", "F", "G", "H", "I", "J", "K", "L", "M", "N", "O", "P",
          "Q", "R", "S", "T", "U", "V", "W", "X", "Y", "Z"}
    \cup {"0", "1", "2", "3", "4", "5", "6", "7", "8", "9"}

opening(c) == IF c = "]" THEN "[" ELSE "("

\* buffer.pathToken: the loop over the bytes; stack holds the open brackets
\* and parentheses, start is the index at the call
RECURSIVE pathTokenLoop(_, _, _, _, _)
pathTokenEnd(b, stack, start) ==
  [b |-> b, err |-> Len(stack) # 0 \/ start = b.index]

pathTokenQuoted(b, stack, inNumber, start, s) ==
  IF s.err \/ s.b.index >= s.b.length THEN [b |-> s.b, err |-> TRUE]
  ELSE pathTokenLoop([s.b EXCEPT !.index = @ + 1], stack, TRUE, inNumber, start)

pathTokenSign(b, stack, inToken, inNumber, start) ==
  IF inNumber \/ (b.index > 0 /\ At(b, b.index - 1) \in {"e", "E"})
  THEN pathTokenLoop([b EXCEPT !.index = @ + 1], stack, TRUE, inNumber, start)
  ELSE IF ~inToken /\ b.index + 1 < b.length /\ IsDigit(At(b, b.index + 1))
  THEN pathTokenLoop([b EXCEPT !.index = @ + 1], stack, TRUE, TRUE, start)
  ELSE IF ~inToken THEN [b |-> b, err |-> TRUE]
  ELSE pathTokenLoop([b EXCEPT !.index = @ + 1], stack, inToken, inNumber, start)

pathTokenLoop(b, stack, inToken, inNumber, start) ==
  IF b.index >= b.length THEN pathTokenEnd(b, stack, start)
  ELSE CASE At(b, b.index) \in {"\"", "'"} ->
              IF step(b).err THEN [b |-> step(b).b, err |-> TRUE]
              ELSE pathTokenQuoted(b, stack, inNumber, start, skip(step(b).b, At(b, b.index)))
         [] At(b, b.index) \in {"[", "("} ->
              pathTokenLoop([b EXCEPT !.index = @ + 1], Append(stack, At(b, b.index)),
                            TRUE, inNumber, start)
         [] At(b, b.index) \in {"]", ")"} ->
              IF Len(stack) = 0 \/ stack[Len(stack)] # opening(At(b, b.index))
              THEN [b |-> b, err |-> TRUE]
              ELSE pathTokenLoop([b EXCEPT !.index = @ + 1],
                                 SubSeq(stack, 1, Len(stack) - 1), TRUE, inNumber, start)
         [] At(b, b.index) \in tokenBytes ->
              pathTokenLoop([b EXCEPT !.index = @ + 1], stack, TRUE, inNumber, start)
         [] At(b, b.index) \in {"+", "-"} ->
              pathTokenSign(b, stack, inToken, inNumber, start)
         [] OTHER ->
              IF Len(stack) # 0 \/ inToken
              THEN pathTokenLoop([b EXCEPT !.index = @ + 1], stack, TRUE, inNumber, start)
              ELSE pathTokenEnd(b, stack, start)

pathToken(b) == pathTokenLoop(b, <<>>, FALSE, FALSE, b.index)

\* the data of the buffers: up to MaxBuffer bytes
MaxBuffer == 3
BufferBytes == {"t", "r", "1", "\"", "[", "]", " ", "\n", "-"}
BufferData == UNION {[1..n -> BufferBytes] : n \in 0..MaxBuffer}

\* the buffer over data at the index i, in the state last
bufferAt(data, i, state) == [newBuffer(data) EXCEPT !.index = i, !.last = state]

BufferInit ==
  /\ heap = <<>>
  /\ used = 0
  /\ steps = 0
  /\ failed = FALSE
  /\ last = [op |-> "start"]

\* the call op on the buffer b gave r: from and to are the index before and
\* after the call, seen and sees the outcome of current() before and after
moved(op, b, r) ==
  /\ UNCHANGED <<heap, used>>
  /\ steps' = steps + 1
  /\ failed' = r.err
  /\ last' = [op |-> op, data |-> b.data, from |-> b.index, to |-> r.b.index,
              err |-> r.err, seen |-> current(b), sees |-> current(r.b)]

DoBufferNext ==
  /\ steps = 0
  /\ \E data \in BufferData : \E i \in 0..Len(data) :
       moved("next", bufferAt(data, i, "GO"), next(bufferAt(data, i, "GO")))

DoBufferStep ==
  /\ steps = 0
  /\ \E data \in BufferData : \E i \in 0..Len(data) :
       moved("step", bufferAt(data, i, "GO"), step(bufferAt(data, i, "GO")))

DoBufferSkip ==
  /\ steps = 0
  /\ \E data \in BufferData : \E i \in 0..Len(data) : \E bs \in {"\"", "]"} :
       moved("skip", bufferAt(data, i, "GO"), skip(bufferAt(data, i, "GO"), bs))

DoBufferSkipAny ==
  /\ steps = 0
  /\ \E data \in BufferData : \E i \in 0..Len(data) :
       moved("skipAny", bufferAt(data, i, "GO"), skipAny(bufferAt(data, i, "GO"), {"[", "]"}))

DoBufferSkipUntil ==
  /\ steps = 0
  /\ \E data \in BufferData : \E i \in 0..Len(data) :
       moved("skipUntil", bufferAt(data, i, "GO"),
             skipUntil(bufferAt(data, i, "GO"), {"[", "]"}))

\* string(doubleQuote, false), after the opening quote
DoBufferString ==
  /\ steps = 0
  /\ \E data \in BufferData : \E i \in 0..Len(data) :
       moved("string", bufferAt(data, i, "ST"), string(bufferAt(data, i, "ST")))

\* numeric(false)
DoBufferNumeric ==
  /\ steps = 0
  /\ \E data \in BufferData : \E i \in 0..Len(data) :
       moved("numeric", bufferAt(data, i, "GO"), numeric(bufferAt(data, i, "GO")))

DoBufferWord ==
  /\ steps = 0
  /\ \E data \in BufferData : \E i \in 0..Len(data) :
       moved("word", bufferAt(data, i, "GO"), word(bufferAt(data, i, "GO"), <<"t", "r">>))

DoBufferPathToken ==
  /\ steps = 0
  /\ \E data \in BufferData : \E i \in 0..Len(data) :
       moved("pathToken", bufferAt(data, i, "GO"), pathToken(bufferAt(data, i, "GO")))

BufferNext ==
  \/ DoBufferNext \/ DoBufferStep
  \/ DoBufferSkip \/ DoBufferSkipAny \/ DoBufferSkipUntil
  \/ DoBufferString \/ DoBufferNumeric \/ DoBufferWord
  \/ DoBufferPathToken

BufferSpec == BufferInit /\ [][BufferNext]_vars

\* -------------------------------------------------------------------- C39
BufferOps ==
  {"next", "step", "skip", "skipAny", "skipUntil", "string", "numeric", "word", "pathToken"}

\* C39: no method of the buffer moves the index when it fails: when next,
\* step, skip, skipAny, skipUntil, string, numeric, word or pathToken reports
\* an error, the index is the one before the call, and current() gives what
\* it gave before the call.
C39_NoAdvanceOnFailure ==
  (last.op \in BufferOps /\ last.err) => (last.to = last.from /\ last.sees = last.seen)

\* next() at the last byte of the data: it reports io.EOF with the index
\* moved to the end, and current(), which gave the last byte, gives io.EOF
C39_NextPastLastByte ==
  /\ last.op = "next"
  /\ last.err
  /\ last.from = Len(last.data) - 1
  /\ last.to = last.from + 1
  /\ ~last.seen.err
  /\ last.sees.err

\* ------------------------------------------------------------ DecodeSpec
\* Unmarshal of one document, an iteration of its loop in each step
MaxDecodeBytes == 4
DecodeBytes == {"1", "-", ".", "[", "]", ",", " ", "\""}
DecodeInputs == UNION {[1..n -> DecodeBytes] : n \in 0..MaxDecodeBytes}

\* the decoder of a state of the run over the document bytes
decoderOver(l, h, u) ==
  [b |-> l.d.b, doc |-> <<Doc(l.bytes, <<>>)>>, key |-> l.d.key, current |-> l.d.current,
   nesting |-> l.d.nesting, h |-> h, used |-> u]

\* newBuffer and the call of first before the loop: res is "go" when the
\* loop is entered; at is the index at the start of the next iteration
entered(bytes, f) ==
  /\ heap = <<>>
  /\ used = 0
  /\ steps = 0
  /\ failed = f.err
  /\ last = [op |-> "first", res |-> IF f.err THEN "eof" ELSE "go", bytes |-> bytes,
             state |-> "GO", start |-> 0 - 1, back |-> 0 - 1, at |-> f.b.index, iters |-> 0,
             d |-> [b |-> f.b, key |-> NoKey, current |-> NIL, nesting |-> 0]]

DecodeInit == \E bytes \in DecodeInputs : entered(bytes, first(newBuffer(bytes)))

\* an iteration of the loop: t is the outcome of getState and the switch, s
\* the buffer after step and f the buffer after first.  start is the index
\* at the start of the iteration, back the index after the switch
iterated(d, t, s, f) ==
  /\ heap' = t.d.h
  /\ used' = t.d.used
  /\ steps' = steps + 1
  /\ failed' = (t.res # "ok")
  /\ last' = [op |-> "iteration",
              res |-> IF t.res # "ok" THEN t.res
                      ELSE IF s.err \/ f.err THEN "break" ELSE "go",
              bytes |-> last.bytes,
              state |-> getState(d.b).state,
              start |-> d.b.index,
              back |-> t.d.b.index,
              at |-> IF t.res # "ok" THEN t.d.b.index ELSE IF s.err THEN s.b.index
                     ELSE f.b.index,
              iters |-> last.iters + 1,
              d |-> restOf([t.d EXCEPT !.b = IF t.res # "ok" THEN t.d.b
                                             ELSE IF s.err THEN s.b ELSE f.b])]

iteratedToken(d, t) == iterated(d, t, step(t.d.b), first(step(t.d.b).b))

DoIteration ==
  /\ last.res = "go"
  /\ last.iters <= MaxDecodeBytes + 1
  /\ \E d \in {decoderOver(last, heap, used)} : iteratedToken(d, decodeToken(d, <<>>))

\* the end of Unmarshal, after the loop
returned(r) ==
  /\ UNCHANGED <<heap, used>>
  /\ steps' = steps + 1
  /\ failed' = (r.res # "ok")
  /\ last' = [last EXCEPT !.op = "return", !.res = r.res]

DoReturn ==
  /\ last.res = "break"
  /\ returned(decodeEnd(decoderOver(last, heap, used)))

DecodeNext == DoIteration \/ DoReturn

DecodeSpec == DecodeInit /\ [][DecodeNext]_vars

\* -------------------------------------------------------------------- C40
\* C40: Unmarshal ends on every input: at the start of each iteration of the
\* decoding loop the index of the buffer is greater than at the start of the
\* iteration before it, also after the step back by one byte that follows a
\* number, so the loop has at most len(data) iterations.
C40_CursorAdvances ==
  last.op = "iteration" =>
    /\ last.res = "go" => last.at > last.start
    /\ last.iters <= Len(last.bytes)

\* the iteration on the number 11 before a comma: numeric ends at the comma,
\* the index goes one byte back to the last digit, and the next iteration
\* starts at the comma
C40_AfterNumberRewind ==
  /\ last.op = "iteration"
  /\ last.res = "go"
  /\ last.state = "IN"
  /\ last.start + 3 <= Len(last.bytes)
  /\ SubSeq(last.bytes, last.start + 1, last.start + 3) = <<"1", "1", ",">>
  /\ last.back = last.start + 1
  /\ last.at = last.start + 2

====
